---- MODULE Spec2Model ----
(***************************************************************************)
(* A model of the badho-search catalogue search system:                    *)
(*   - the embedding client (embed_text) and the parallel embedder         *)
(*     (embed_texts_parallel) of src/src/badho_search/embeddings.py,       *)
(*   - the index builder (build_index) of index_build.py,                  *)
(*   - the hybrid query engine (hybrid_search) of hybrid_search.py and     *)
(*     the request handler search_with_facets of app.py.                   *)
(* Scores are kept in hundredths (0.2 is 20), so that the float            *)
(* arithmetic of the rerank is exact integer arithmetic here.              *)
(***************************************************************************)
EXTENDS Integers, Sequences, FiniteSets, TLC

VARIABLES
    \* ---- embed_texts_parallel (one call) ----
    texts,        \* the input sequence
    max_workers,  \* size of the worker pool
    task,         \* per submitted future: its state and the vector it produced
    seen,         \* futures the as_completed loop has already handled
    results,      \* dict idx -> vector
    order,        \* insertion order of the keys of results
    first_dim,    \* 0 is None
    epc,          \* position of the call
    eerr,         \* why the call is raising
    matrix,       \* the value returned
    lateStart,    \* a request was issued after a mismatch had been observed
    \* ---- build_index ----
    pc,           \* position of the build
    raw,          \* the rows read from the catalogue, cut to max_rows
    df,           \* the prepared data frame
    disk,         \* the four artifact files
    diskAtStart,  \* the files as build_index found them
    failStage,    \* where the build raised
    stats,        \* the value build_index returned
    \* ---- the query path: one engine, one query ----
    product_lookup,  \* HybridSearchEngine.product_lookup
    query,           \* the query string
    k,               \* the number of hits asked for
    candidate_pool,  \* the candidate_pool argument
    dist,            \* the L2 distance of each index row to the query vector
    runs,            \* per phonetic_boost tried: what hybrid_search did
    response,        \* what search_with_facets answered last
    embedDims,       \* the lengths of the vectors embed_text has returned
    \* ---- approx_code_match (one call) ----
    record_code,     \* the record's code, upper-cased by the caller
    qcodes,          \* the query's code set
    matched,         \* <<>>, then the one value the call returned
    \* ---- the relational store ----
    store,           \* the rows of brandSKU, brandSKUFacet, standardFacetKeys
    dbFail,          \* the store calls that fail with an exception
    \* ---- the /search and /facets requests ----
    args,            \* request.args of the /search request
    facet_filters,   \* the facet_filters argument of the handler
    only_active_facets,
    posts,           \* POSTs sent to the embedding service by the request
    queries,         \* statements sent to the store by the request
    product_names,   \* the products a /facets request names
    facetRuns,       \* per facet_filters tried: what get_facets_async answered
    \* ---- the price-range buckets (one price) ----
    price,           \* consumerSellingPrice, in hundredths of a rupee
    bucket,          \* <<>>, then the one list get_price_range_facets returned
    intervals,       \* the price ranges under which the filter keeps the row
    \* ---- get_brand_skus_matching_facets (one call) ----
    candidate_ids,   \* the brand_sku_ids argument
    matching,        \* <<>>, then the one list the call returned
    \* ---- the shared DatabaseConnection ----
    _connection,     \* DatabaseConnection._connection; 0 is None
    opened,          \* the connections psycopg2.connect has established
    caller,          \* per request thread: where its execute_query call is
    \* ---- embed_text (one call) ----
    embedded         \* <<>>, then the one call: the answers, the POSTs, the outcome

embedVars == <<texts, max_workers, task, seen, results, order, first_dim, epc,
               eerr, matrix, lateStart>>
buildVars == <<pc, raw, df, disk, diskAtStart, failStage, stats>>
searchVars == <<product_lookup, query, k, candidate_pool, dist, runs, response,
                embedDims>>
matchVars == <<record_code, qcodes, matched>>
storeVars == <<store, dbFail>>
requestVars == <<args, facet_filters, only_active_facets, posts, queries,
                 product_names, facetRuns>>
priceVars == <<price, bucket, intervals>>
filterVars == <<candidate_ids, matching>>
connVars == <<_connection, opened, caller>>
clientVars == <<embedded>>
facetVars == <<matchVars, storeVars, requestVars, priceVars, filterVars, connVars,
               clientVars>>
vars == <<embedVars, buildVars, searchVars, facetVars>>

----------------------------------------------------------------------------
(* Bounds *)

MaxRows == 3
MaxItems == 2
MaxK == 2
MaxPool == 2

\* the dimension of the vector index the engine has loaded
IndexDim == 2

\* vector lengths the embedding service may answer with
Dims == {2, 3}

\* sizes of the worker pool
Workers == {1, 2}

----------------------------------------------------------------------------
(* embeddings.py: the embedding client *)

None == "None"

\* What the service answers to one POST: a transport failure, a non-200
\* status, or a JSON object.  embedding is 0 for [], -1 when the key is
\* absent, else the vector's length; embeddings is a list of such lengths,
\* hasEmbeddings tells whether the key is there.
JsonReply(e, h, es) ==
    [kind |-> "json", embedding |-> e, hasEmbeddings |-> h, embeddings |-> es]

Replies ==
    {[kind |-> "neterr", embedding |-> -1, hasEmbeddings |-> FALSE, embeddings |-> <<>>],
     [kind |-> "status", embedding |-> -1, hasEmbeddings |-> FALSE, embeddings |-> <<>>],
     JsonReply(-1, FALSE, <<>>),
     JsonReply(0, FALSE, <<>>)}
    \cup {JsonReply(d, FALSE, <<>>) : d \in Dims}
    \cup {JsonReply(-1, TRUE, <<2>>), JsonReply(-1, TRUE, <<2, 3>>)}

\* the second POST is made only when the first answer carries no usable
\* embedding; otherwise its answer is never asked for
SecondReplies(r1) ==
    IF r1.kind = "json" /\ (r1.embedding = -1 \/ r1.embedding = 0) THEN Replies ELSE {r1}

\* _post_embed: raises on a transport failure or a non-200 status
PostRaises(reply) == reply.kind \in {"neterr", "status"}

\* a vector is the text it embeds (a string, see SearchText) and its length
Vec(text, d) == [text |-> text, dim |-> d]

Raised(kind, n) == [ok |-> FALSE, error |-> kind, vec |-> Vec(<<>>, 0), requests |-> n]
Returned(text, d, n) == [ok |-> TRUE, error |-> None, vec |-> Vec(text, d), requests |-> n]

\* `not vector`: None or the empty list
Falsy(e) == e = -1 \/ e = 0

\* an embed_text that takes the first vector of an embeddings list of any
\* length
EmbedTextTailAnyList(text, data, n) ==
    LET v1 == data.embedding
        v2 == IF v1 = -1 /\ data.hasEmbeddings /\ Len(data.embeddings) >= 1
              THEN data.embeddings[1] ELSE v1
    IN  IF Falsy(v2) THEN Raised("OllamaEmbeddingError", n)
        ELSE Returned(text, v2, n)

\* embed_text after the first POST answered r1 with a usable embedding or
\* the second POST answered r2
EmbedTextTail(text, data, n) ==
    LET v1 == data.embedding
        v2 == IF v1 = -1 /\ data.hasEmbeddings /\ Len(data.embeddings) = 1
              THEN data.embeddings[1] ELSE v1
    IN  IF Falsy(v2) THEN Raised("OllamaEmbeddingError", n)
        ELSE Returned(text, v2, n)

\* embed_text(text), with r1 the service's answer to {model, input} and r2
\* its answer to {model, prompt}
embed_text(text, r1, r2) ==
    IF text = <<>> THEN Raised("ValueError", 0)
    ELSE IF PostRaises(r1) THEN Raised("OllamaEmbeddingError", 1)
    ELSE IF ~Falsy(r1.embedding) THEN EmbedTextTail(text, r1, 1)
    ELSE IF PostRaises(r2) THEN Raised("OllamaEmbeddingError", 2)
    ELSE EmbedTextTail(text, r2, 2)

\* the payloads of the POSTs of a call that sent n: lines 46 and 51
Payloads(n) == SubSeq(<<"input", "prompt">>, 1, n)

----------------------------------------------------------------------------
(* embeddings.py: embed_texts_parallel *)

Idx == 1 .. Len(texts)

Running == {i \in Idx : task[i].st = "running"}
Finished == {i \in Idx : task[i].st \in {"done", "failed"}}

EmbedIdle ==
    /\ texts = <<>>
    /\ max_workers = 1
    /\ task = <<>>
    /\ seen = {}
    /\ results = <<>>
    /\ order = <<>>
    /\ first_dim = 0
    /\ epc = "idle"
    /\ eerr = None
    /\ matrix = <<>>
    /\ lateStart = FALSE

\* lines 102-112: the empty input returns at once; otherwise every text is
\* submitted to the pool
EmbedCall(ts, w) ==
    /\ texts' = ts
    /\ max_workers' = w
    /\ task' = [i \in 1 .. Len(ts) |-> [st |-> "queued", vec |-> Vec(<<>>, 0)]]
    /\ seen' = {}
    /\ results' = <<>>
    /\ order' = <<>>
    /\ first_dim' = 0
    /\ epc' = IF ts = <<>> THEN "returned" ELSE "collect"
    /\ eerr' = None
    /\ matrix' = <<>>
    /\ lateStart' = FALSE

\* a worker thread takes the next queued work item; the pool keeps doing so
\* while the caller is blocked in the executor's shutdown(wait=True)
TaskStart(i) ==
    /\ epc \in {"collect", "unwind"}
    /\ task[i].st = "queued"
    /\ \A j \in Idx : j < i => task[j].st # "queued"
    /\ Cardinality(Running) < max_workers
    /\ task' = [task EXCEPT ![i].st = "running"]
    /\ lateStart' = (lateStart \/ (epc = "unwind" /\ eerr = "mismatch"))
    /\ UNCHANGED <<texts, max_workers, seen, results, order, first_dim, epc,
                   eerr, matrix, buildVars, searchVars, facetVars>>

\* task(idx, txt) finishes: embed_text returned or raised
TaskFinish(i, r1, r2) ==
    /\ epc \in {"collect", "unwind"}
    /\ task[i].st = "running"
    /\ LET out == embed_text(texts[i], r1, r2)
       IN  task' = [task EXCEPT ![i] =
                       [st |-> IF out.ok THEN "done" ELSE "failed", vec |-> out.vec]]
    /\ UNCHANGED <<texts, max_workers, seen, results, order, first_dim, epc,
                   eerr, matrix, lateStart, buildVars, searchVars, facetVars>>

\* one turn of the as_completed loop, lines 113-123
Collect(i) ==
    /\ epc = "collect"
    /\ i \in Finished \ seen
    /\ seen' = seen \cup {i}
    /\ IF task[i].st = "failed"
       THEN /\ epc' = "unwind"
            /\ eerr' = "embed"
            /\ UNCHANGED <<first_dim, results, order>>
       ELSE IF first_dim # 0 /\ task[i].vec.dim # first_dim
       THEN /\ epc' = "unwind"
            /\ eerr' = "mismatch"
            /\ UNCHANGED <<first_dim, results, order>>
       ELSE /\ first_dim' = task[i].vec.dim
            /\ results' = (i :> task[i].vec) @@ results
            /\ order' = Append(order, i)
            /\ UNCHANGED <<epc, eerr>>
    /\ UNCHANGED <<texts, max_workers, task, matrix, lateStart, buildVars, searchVars, facetVars>>

\* the exception leaves the with block: ThreadPoolExecutor.__exit__ waits
\* for every submitted future, then the exception reaches the caller
Unwind ==
    /\ epc = "unwind"
    /\ Finished = Idx
    /\ epc' = "raised"
    /\ UNCHANGED <<texts, max_workers, task, seen, results, order, first_dim,
                   eerr, matrix, lateStart, buildVars, searchVars, facetVars>>

\* line 126: ordered = [results[i] for i in range(len(texts))]
AssembleByInsertion(res, ord, n) == [i \in 1 .. n |-> res[ord[i]]]
Assemble(res, ord, n) == [i \in 1 .. n |-> res[i]]

\* lines 125-127, once the loop has handled every future
EmbedReturn ==
    /\ epc = "collect"
    /\ seen = Idx
    /\ matrix' = Assemble(results, order, Len(texts))
    /\ epc' = "returned"
    /\ UNCHANGED <<texts, max_workers, task, seen, results, order, first_dim,
                   eerr, lateStart, buildVars, searchVars, facetVars>>

----------------------------------------------------------------------------
(* index_build.py: the catalogue and its normalisation *)

\* A string is the sequence of its pieces: a word, or " " for a run of
\* white space.  The raw catalogue fields carry capitals and stray spaces.
RowPool ==
    {[product_name |-> <<" ", "Colgate", " ", "Total">>,
      brand_name |-> <<"Colgate">>,
      category_name |-> <<"Toothpaste", " ">>],
     [product_name |-> <<"pepsi">>,
      brand_name |-> <<"PEPSI", " ">>,
      category_name |-> <<"drinks">>]}

RECURSIVE SeqsUpTo(_, _)
SeqsUpTo(S, n) ==
    IF n = 0 THEN {<<>>}
    ELSE LET shorter == SeqsUpTo(S, n - 1)
         IN  shorter \cup {Append(q, x) : q \in shorter, x \in S}

\* a catalogue file: whether its header has the three required columns, and
\* its rows
Catalogues ==
    {[columns_ok |-> FALSE, rows |-> <<>>]}
    \cup {[columns_ok |-> TRUE, rows |-> r] : r \in SeqsUpTo(RowPool, MaxRows)}

\* str.lower on one piece
Lower(w) ==
    CASE w = "Colgate" -> "colgate"
      [] w = "Total" -> "total"
      [] w = "Toothpaste" -> "toothpaste"
      [] w = "PEPSI" -> "pepsi"
      [] OTHER -> w

RECURSIVE LStrip(_)
LStrip(s) == IF s # <<>> /\ Head(s) = " " THEN LStrip(Tail(s)) ELSE s

RECURSIVE RStrip(_)
RStrip(s) ==
    IF s # <<>> /\ s[Len(s)] = " " THEN RStrip(SubSeq(s, 1, Len(s) - 1)) ELSE s

\* str.strip
Strip(s) == RStrip(LStrip(s))

\* safe_lower, lines 41-42: str(x).strip().lower()
safe_lower(s) == [i \in 1 .. Len(Strip(s)) |-> Lower(Strip(s)[i])]

\* lines 48-54: brand + " " + product + " " + category, stripped
SearchText(row) ==
    Strip(row.brand_name \o <<" ">> \o row.product_name \o <<" ">> \o row.category_name)

\* jellyfish.double_metaphone on a normalised name: (primary, alternate), a
\* code being the sequence of its letters
double_metaphone(name) ==
    CASE name = <<"colgate">> -> <<<<"K", "L">>, <<>>>>
      [] name = <<"colgate", " ", "total">> -> <<<<"K", "L">>, <<"K", "T">>>>
      [] name = <<"colgate", " ", "max">> -> <<<<"M", "K", "S">>, <<>>>>
      [] name = <<"pepsi">> -> <<<<"P", "S">>, <<>>>>
      [] name = <<"kolgat">> -> <<<<"K", "L", "T">>, <<>>>>
      [] name = <<"total">> -> <<<<"T", "L">>, <<>>>>
      [] OTHER -> <<<<>>, <<>>>>

\* DataFrame.head(max_rows) when max_rows is given and positive
Head_(rows, mr) ==
    IF mr > 0 /\ mr < Len(rows) THEN SubSeq(rows, 1, mr) ELSE rows

\* _prepare_dataframe, lines 31-76, for a file that has the columns
PrepareRow(rawRow) ==
    LET p == safe_lower(rawRow.product_name)
        b == safe_lower(rawRow.brand_name)
        c == safe_lower(rawRow.category_name)
        n == [product_name |-> p, brand_name |-> b, category_name |-> c]
    IN  [product_name |-> p, brand_name |-> b, category_name |-> c,
         search_text |-> SearchText(n),
         brand_phonetic |-> double_metaphone(b)[1],
         brand_phonetic_alt |-> double_metaphone(b)[2],
         product_phonetic |-> double_metaphone(p)[1],
         product_phonetic_alt |-> double_metaphone(p)[2]]

_prepare_dataframe(c, mr) ==
    LET h == Head_(c.rows, mr) IN [i \in 1 .. Len(h) |-> PrepareRow(h[i])]

\* _build_lookup, lines 79-102: one record per row of the frame, in order
LookupRecord(row) ==
    [label |-> Strip(row.product_name),
     brandLabel |-> Strip(row.brand_name),
     category |-> Strip(row.category_name),
     brand_phonetic |-> row.brand_phonetic,
     product_phonetic |-> row.product_phonetic,
     brand_phonetic_alt |-> row.brand_phonetic_alt,
     product_phonetic_alt |-> row.product_phonetic_alt]

RECURSIVE DropDuplicates(_)
DropDuplicates(d) ==
    IF d = <<>> THEN <<>>
    ELSE LET front == DropDuplicates(SubSeq(d, 1, Len(d) - 1))
             last == d[Len(d)]
         IN  IF \E i \in 1 .. Len(front) : front[i] = last THEN front
             ELSE Append(front, last)

BuildLookupDeduplicated(d) ==
    LET u == DropDuplicates(d) IN [i \in 1 .. Len(u) |-> LookupRecord(u[i])]

_build_lookup(d) == [i \in 1 .. Len(d) |-> LookupRecord(d[i])]

\* lines 143-150: the non-empty codes of all four phonetic fields
Vocab(lookup) ==
    UNION {{lookup[i].brand_phonetic, lookup[i].product_phonetic,
            lookup[i].brand_phonetic_alt, lookup[i].product_phonetic_alt}
           : i \in 1 .. Len(lookup)} \ {<<>>}

----------------------------------------------------------------------------
(* index_build.py: build_index *)

Absent ==
    [index |-> [gen |-> "absent", vectors |-> <<>>],
     lookup |-> [gen |-> "absent", records |-> <<>>],
     vocab |-> [gen |-> "absent", codes |-> {}],
     meta |-> [gen |-> "absent", num_items |-> -1, embedding_dim |-> -1]]

\* what an earlier, successful build_index left behind
PreviousRows == <<CHOOSE r \in RowPool : r.product_name = <<"pepsi">>>>
PreviousBuild ==
    LET d == _prepare_dataframe([columns_ok |-> TRUE, rows |-> PreviousRows], 0)
    IN  [index |-> [gen |-> "previous",
                    vectors |-> [i \in 1 .. Len(d) |-> Vec(d[i].search_text, 2)]],
         lookup |-> [gen |-> "previous", records |-> _build_lookup(d)],
         vocab |-> [gen |-> "previous", codes |-> Vocab(_build_lookup(d))],
         meta |-> [gen |-> "previous", num_items |-> Len(d), embedding_dim |-> 2]]

NoStats == [num_items |-> -1, embedding_dim |-> -1]

BuildIdle ==
    /\ pc = "idle"
    /\ raw = <<>>
    /\ df = <<>>
    /\ disk \in {Absent, PreviousBuild}
    /\ diskAtStart = disk
    /\ failStage = None
    /\ stats = NoStats

\* build_index opening its meta file for writing before the work is done
BuildStartOpeningMeta(c, mr, w) ==
    /\ pc = "idle"
    /\ raw' = IF c.columns_ok THEN Head_(c.rows, mr) ELSE <<>>
    /\ diskAtStart' = disk
    /\ stats' = NoStats
    /\ disk' = [disk EXCEPT !.meta = [gen |-> "new", num_items |-> -1, embedding_dim |-> -1]]
    /\ IF ~c.columns_ok
       THEN /\ pc' = "failed"
            /\ failStage' = "prepare"
            /\ df' = <<>>
            /\ EmbedCall(<<>>, w)
       ELSE /\ pc' = "embedding"
            /\ failStage' = None
            /\ df' = _prepare_dataframe(c, mr)
            /\ EmbedCall([i \in 1 .. Len(df') |-> df'[i].search_text], w)
    /\ UNCHANGED <<searchVars, facetVars>>

\* lines 105-126: build_index is called; _prepare_dataframe raises on a
\* missing column, otherwise the search texts go to embed_texts_parallel
BuildStart(c, mr, w) ==
    /\ pc = "idle"
    /\ raw' = IF c.columns_ok THEN Head_(c.rows, mr) ELSE <<>>
    /\ diskAtStart' = disk
    /\ stats' = NoStats
    /\ IF ~c.columns_ok
       THEN /\ pc' = "failed"
            /\ failStage' = "prepare"
            /\ df' = <<>>
            /\ EmbedCall(<<>>, w)
       ELSE /\ pc' = "embedding"
            /\ failStage' = None
            /\ df' = _prepare_dataframe(c, mr)
            /\ EmbedCall([i \in 1 .. Len(df') |-> df'[i].search_text], w)
    /\ UNCHANGED <<disk, searchVars, facetVars>>

\* embed_texts_parallel raised: the exception leaves build_index
BuildEmbedRaised ==
    /\ pc = "embedding"
    /\ epc = "raised"
    /\ pc' = "failed"
    /\ failStage' = "embed"
    /\ UNCHANGED <<searchVars, facetVars, embedVars, raw, df, disk, diskAtStart, stats>>

\* line 128: embeddings.ndim != 2 or embeddings.shape[0] != len(texts)
ShapeMismatch == Len(matrix) # Len(texts)

\* lines 128-136: the shape check, the flat index, faiss.write_index
BuildWriteIndex ==
    /\ pc = "embedding"
    /\ epc = "returned"
    /\ IF ShapeMismatch
       THEN /\ pc' = "failed"
            /\ failStage' = "shape"
            /\ UNCHANGED disk
       ELSE /\ pc' = "wrote_index"
            /\ failStage' = None
            /\ disk' = [disk EXCEPT !.index = [gen |-> "new", vectors |-> matrix]]
    /\ UNCHANGED <<searchVars, facetVars, embedVars, raw, df, diskAtStart, stats>>

\* lines 138-140
BuildWriteLookup ==
    /\ pc = "wrote_index"
    /\ pc' = "wrote_lookup"
    /\ disk' = [disk EXCEPT !.lookup = [gen |-> "new", records |-> _build_lookup(df)]]
    /\ UNCHANGED <<searchVars, facetVars, embedVars, raw, df, diskAtStart, failStage, stats>>

\* lines 142-150
BuildWriteVocab ==
    /\ pc = "wrote_lookup"
    /\ pc' = "wrote_vocab"
    /\ disk' = [disk EXCEPT !.vocab = [gen |-> "new", codes |-> Vocab(_build_lookup(df))]]
    /\ UNCHANGED <<searchVars, facetVars, embedVars, raw, df, diskAtStart, failStage, stats>>

\* embedding_dim of line 131: the matrix's second dimension
EmbeddingDim == IF matrix = <<>> THEN 0 ELSE matrix[1].dim

\* lines 152-163
BuildWriteMeta ==
    /\ pc = "wrote_vocab"
    /\ pc' = "done"
    /\ disk' = [disk EXCEPT !.meta = [gen |-> "new", num_items |-> Len(matrix),
                                      embedding_dim |-> EmbeddingDim]]
    /\ stats' = [num_items |-> Len(matrix), embedding_dim |-> EmbeddingDim]
    /\ UNCHANGED <<searchVars, facetVars, embedVars, raw, df, diskAtStart, failStage>>

\* between two writes the next open() raises (lines 139, 149, 152)
BuildPersistError ==
    /\ pc \in {"wrote_index", "wrote_lookup", "wrote_vocab"}
    /\ pc' = "failed"
    /\ failStage' = "persist"
    /\ UNCHANGED <<searchVars, facetVars, embedVars, raw, df, disk, diskAtStart, stats>>

\* the process is killed between two of the writes of lines 136-163
BuildCrash ==
    /\ pc \in {"wrote_index", "wrote_lookup", "wrote_vocab"}
    /\ pc' = "crashed"
    /\ UNCHANGED <<searchVars, facetVars, embedVars, raw, df, disk, diskAtStart, failStage, stats>>

----------------------------------------------------------------------------
(* hybrid_search.py: the hybrid query engine *)

\* config.py
DEFAULT_PHONETIC_BOOST == 20
PRODUCT_PHONETIC_BOOST == 25
FUZZY_JARO_WEIGHT == 50
PHONETIC_CODE_MAX_EDITS == 1
PHONETIC_APPROX_BOOST == 12

\* the catalogue the engine's artifacts were built from
CatalogPool ==
    RowPool \cup {[product_name |-> <<"colgate", " ", "max">>,
                   brand_name |-> <<"colgate">>,
                   category_name |-> <<"toothpaste">>]}

\* catalogues of different rows
Distinct(r) == \A i, j \in 1 .. Len(r) : i # j => r[i] # r[j]

Lookups ==
    {_build_lookup(_prepare_dataframe([columns_ok |-> TRUE, rows |-> r], 0)) :
        r \in {c \in SeqsUpTo(CatalogPool, MaxItems) : Distinct(c)}}

Queries == {<<>>, <<"colgate">>, <<"kolgat">>, <<"pepsi", " ", "total">>}

\* L2 distances, in hundredths
Dists == {0, 12}

Boosts == {5, DEFAULT_PHONETIC_BOOST}

\* str.upper on one letter of a code
UpperLetter(c) ==
    CASE c = "k" -> "K"
      [] c = "l" -> "L"
      [] c = "t" -> "T"
      [] OTHER -> c

Upper(code) == [i \in 1 .. Len(code) |-> UpperLetter(code[i])]

\* _query_phonetic_codes, lines 42-58: the non-empty codes of every token
_query_phonetic_codes(q) ==
    LET tokens == {q[i] : i \in {j \in 1 .. Len(q) : q[j] # " "}}
    IN  UNION {{Upper(double_metaphone(<<t>>)[1]), Upper(double_metaphone(<<t>>)[2])}
               : t \in tokens} \ {<<>>}

\* jellyfish.jaro_winkler_similarity(query.lower(), label.lower()), in percent
fuzzy_score(q, label) ==
    CASE q = <<"colgate">> /\ label = <<"colgate", " ", "total">> -> 90
      [] q = <<"colgate">> /\ label = <<"colgate", " ", "max">> -> 90
      [] q = <<"kolgat">> /\ label = <<"colgate", " ", "total">> -> 80
      [] q = <<"kolgat">> /\ label = <<"colgate", " ", "max">> -> 80
      [] q = <<"pepsi", " ", "total">> /\ label = <<"pepsi">> -> 90
      [] OTHER -> 0

Min(a, b) == IF a <= b THEN a ELSE b
Max(a, b) == IF a >= b THEN a ELSE b

\* jellyfish.levenshtein_distance
RECURSIVE levenshtein_distance(_, _)
levenshtein_distance(a, b) ==
    IF a = <<>> THEN Len(b)
    ELSE IF b = <<>> THEN Len(a)
    ELSE LET subst == levenshtein_distance(Tail(a), Tail(b))
                      + (IF Head(a) = Head(b) THEN 0 ELSE 1)
             del == levenshtein_distance(Tail(a), b) + 1
             ins == levenshtein_distance(a, Tail(b)) + 1
         IN  Min(subst, Min(del, ins))

\* approx_code_match without the test of line 89
approx_code_match_unguarded(rc, qc_set) ==
    \/ Upper(rc) \in qc_set
    \/ \E qc \in qc_set :
           levenshtein_distance(Upper(rc), qc) <= PHONETIC_CODE_MAX_EDITS

\* approx_code_match, lines 88-102
approx_code_match(rc, qc_set) ==
    /\ rc # <<>>
    /\ \/ Upper(rc) \in qc_set
       \/ \E qc \in qc_set :
              levenshtein_distance(Upper(rc), qc) <= PHONETIC_CODE_MAX_EDITS

\* lines 114-117 and 127-130: the codes of a record, without the empty one
CodeSet(primary, alt) == {Upper(primary), Upper(alt)} \ {<<>>}

BrandAdjustmentMisSigned(metadata, query_codes, phonetic_boost) ==
    LET brand_codes == CodeSet(metadata.brand_phonetic, metadata.brand_phonetic_alt)
    IN  IF brand_codes \cap query_codes # {} THEN -phonetic_boost
        ELSE IF \E c \in brand_codes : approx_code_match(c, query_codes)
        THEN PHONETIC_APPROX_BOOST ELSE 0

\* lines 113-124: what the brand signal subtracts
BrandAdjustment(metadata, query_codes, phonetic_boost) ==
    LET brand_codes == CodeSet(metadata.brand_phonetic, metadata.brand_phonetic_alt)
    IN  IF brand_codes \cap query_codes # {} THEN phonetic_boost
        ELSE IF \E c \in brand_codes : approx_code_match(c, query_codes)
        THEN PHONETIC_APPROX_BOOST ELSE 0

\* a product signal whose approximate boost comes on top of the exact one
ProductAdjustmentStacked(metadata, query_codes) ==
    LET product_codes == CodeSet(metadata.product_phonetic, metadata.product_phonetic_alt)
    IN  (IF product_codes \cap query_codes # {} THEN PRODUCT_PHONETIC_BOOST ELSE 0)
        + (IF \E c \in product_codes : approx_code_match(c, query_codes)
           THEN PHONETIC_APPROX_BOOST ELSE 0)

\* lines 126-135: what the product signal subtracts
ProductAdjustment(metadata, query_codes) ==
    LET product_codes == CodeSet(metadata.product_phonetic, metadata.product_phonetic_alt)
    IN  IF product_codes \cap query_codes # {} THEN PRODUCT_PHONETIC_BOOST
        ELSE IF \E c \in product_codes : approx_code_match(c, query_codes)
        THEN PHONETIC_APPROX_BOOST ELSE 0

\* lines 110-141: the final score of one candidate
FinalScore(metadata, d, q, query_codes, phonetic_boost) ==
    LET jw == fuzzy_score(q, metadata.label)
    IN  d - BrandAdjustment(metadata, query_codes, phonetic_boost)
          - ProductAdjustment(metadata, query_codes)
          - (IF jw > 0 THEN FUZZY_JARO_WEIGHT * jw ELSE 0)

\* list.sort(key=score): an element goes behind every element whose score
\* is not greater
RECURSIVE InsertStable(_, _)
InsertStable(s, x) ==
    IF s = <<>> THEN <<x>>
    ELSE IF s[Len(s)].score <= x.score THEN Append(s, x)
    ELSE Append(InsertStable(SubSeq(s, 1, Len(s) - 1), x), s[Len(s)])

RECURSIVE SortStable(_)
SortStable(s) ==
    IF s = <<>> THEN <<>>
    ELSE InsertStable(SortStable(SubSeq(s, 1, Len(s) - 1)), s[Len(s)])

\* a sort that puts an element in front of its equals
RECURSIVE InsertBeforeEquals(_, _)
InsertBeforeEquals(s, x) ==
    IF s = <<>> THEN <<x>>
    ELSE IF s[Len(s)].score < x.score THEN Append(s, x)
    ELSE Append(InsertBeforeEquals(SubSeq(s, 1, Len(s) - 1), x), s[Len(s)])

RECURSIVE SortTiesReversed(_)
SortTiesReversed(s) ==
    IF s = <<>> THEN <<>>
    ELSE InsertBeforeEquals(SortTiesReversed(SubSeq(s, 1, Len(s) - 1)), s[Len(s)])

SortRankedTiesReversed(ranked) == SortTiesReversed(ranked)

\* line 145: ranked_results.sort(key=lambda x: x[0])
SortRanked(ranked) == SortStable(ranked)

\* seq[:n] of Python
Slice(s, n) ==
    IF n >= 0 THEN SubSeq(s, 1, Min(n, Len(s))) ELSE SubSeq(s, 1, Max(Len(s) + n, 0))

\* index.search(qvec, nprobe), line 76: the rows by ascending distance, then
\* the slots no row fills, which carry the row number -1
Ann(lookup, d, nprobe) ==
    LET rows == SortStable([i \in 1 .. Len(lookup) |-> [score |-> d[i], idx |-> i]])
    IN  [j \in 1 .. nprobe |->
            IF j <= Len(rows) THEN [dist |-> rows[j].score, idx |-> rows[j].idx]
            ELSE [dist |-> 0, idx |-> -1]]

HybridRaised(kind, dim) ==
    [raised |-> kind, results |-> <<>>, scored |-> <<>>, dim |-> dim]

\* hybrid_search, lines 60-159, on the engine's lookup and the distances d;
\* r1, r2 are the embedding service's answers.  A hit is the record, its
\* score and (for the reader of the model) the index row it came from.
hybrid_search(lookup, d, q, kk, phonetic_boost, pool, r1, r2) ==
    LET query_codes == _query_phonetic_codes(q)
        e == embed_text(q, r1, r2)
        nprobe == Max(pool, kk)
    IN  IF ~e.ok THEN HybridRaised(e.error, 0)
        ELSE IF e.vec.dim # IndexDim \/ nprobe <= 0
        THEN HybridRaised("AssertionError", e.vec.dim)
        ELSE LET cands == SelectSeq(Ann(lookup, d, nprobe), LAMBDA c : c.idx >= 0)
                 scored == [j \in 1 .. Len(cands) |->
                               [score |-> FinalScore(lookup[cands[j].idx], cands[j].dist,
                                                     q, query_codes, phonetic_boost),
                                row |-> cands[j].idx,
                                meta |-> lookup[cands[j].idx]]]
             IN  [raised |-> None,
                  results |-> Slice(SortRanked(scored), kk),
                  scored |-> scored,
                  dim |-> e.vec.dim]

NoRun == [raised |-> "not run", results |-> <<>>, scored |-> <<>>, dim |-> 0]

\* metadata = self.product_lookup[idx], line 108: a name of the dict that is
\* the record of index row idx
RecordRef(idx) == [row |-> idx, record |-> TRUE]

\* an assignment that makes a second name of the same dict
dict_alias(ref) == ref

\* item = dict(meta), line 148, and result.copy(), app.py line 260: a new
\* dict with the keys of the old one, which is no record of the lookup
dict_copy(ref) == [ref EXCEPT !.record = FALSE]

\* d[key] = value on the dict ref names: what the lookup is afterwards
SetKey(lookup, ref, key, value) ==
    IF ~ref.record THEN lookup
    ELSE [lookup EXCEPT ![ref.row] =
             [f \in DOMAIN lookup[ref.row] \cup {key} |->
                 IF f = key THEN value ELSE lookup[ref.row][f]]]

\* lines 147-150: what the lookup is after the score was written to the
\* item of every hit
RECURSIVE LookupAfterScoring(_, _)
LookupAfterScoring(lookup, hits) ==
    IF hits = <<>> THEN lookup
    ELSE LET hit == hits[Len(hits)]
             item == dict_copy(RecordRef(hit.row))
         IN  SetKey(LookupAfterScoring(lookup, SubSeq(hits, 1, Len(hits) - 1)),
                    item, "score", hit.score)

\* one call of engine.hybrid_search
HybridSearch(b, r1, r2) ==
    /\ LET h == hybrid_search(product_lookup, dist, query, k, b, candidate_pool, r1, r2)
       IN  /\ runs' = [runs EXCEPT ![b] = h]
           /\ embedDims' = IF h.dim = 0 THEN embedDims ELSE embedDims \cup {h.dim}
           /\ product_lookup' = LookupAfterScoring(product_lookup, h.results)
    /\ UNCHANGED <<query, k, candidate_pool, dist, response,
                   embedVars, buildVars, facetVars>>

----------------------------------------------------------------------------
(* hybrid_search.py: one call of approx_code_match *)

\* the longest code tried
MaxCodeLen == 2

\* letters of the phonetic codes
CodeLetters == {"K", "L", "T"}

MatchIdle ==
    /\ record_code = <<>>
    /\ qcodes = {}
    /\ matched = <<>>

\* lines 123 and 134: approx_code_match(c, query_codes)
ApproxCodeMatch ==
    /\ matched = <<>>
    /\ matched' = <<approx_code_match(record_code, qcodes)>>
    /\ UNCHANGED <<record_code, qcodes, storeVars, requestVars, priceVars,
                   filterVars, connVars, clientVars,
                   embedVars, buildVars, searchVars>>

----------------------------------------------------------------------------
(* database.py: the relational store and ProductDatabase *)

\* SQL NULL
NULL == "<null>"

\* an amount in rupees; prices are kept in hundredths of a rupee
Rs(n) == n * 100

\* a row of brands."brandSKU"; price is <<>> for NULL, else <<amount>>
Sku(id, label, brandId, brandLabel, p) ==
    [id |-> id, label |-> label, brandId |-> brandId, brandLabel |-> brandLabel,
     price |-> p]

\* a row of brands."brandSKUFacet"
FacetRow(sku, key, value, standardValue, isActive) ==
    [sku |-> sku, key |-> key, value |-> value, standardValue |-> standardValue,
     isActive |-> isActive]

\* str.lower and SQL LOWER on a string of pieces
LowerStr(str) == [i \in 1 .. Len(str) |-> Lower(str[i])]

\* SQL TRIM on a facet value
TrimValue(v) ==
    CASE v = " " -> ""
      [] v = "N/A " -> "N/A"
      [] OTHER -> v

\* SQL LOWER on a facet value
LowerValue(v) ==
    CASE v = "N/A" -> "n/a"
      [] v = "Red" -> "red"
      [] v = "TRUE" -> "true"
      [] OTHER -> v

\* COALESCE(bsf."standardValue", bsf.value)
Coalesce(f) == IF f.standardValue # NULL THEN f.standardValue ELSE f.value

\* lines 107-109 and 293-295: the value is there, not blank and no placeholder
ValuePresent(f) ==
    /\ Coalesce(f) # NULL
    /\ TrimValue(Coalesce(f)) # ""
    /\ LowerValue(TrimValue(Coalesce(f))) \notin {"n/a", "na", "null", "none", "-"}

\* the position of the first search term a label matches, line 79-84
FirstTerm(names, label) ==
    CHOOSE i \in 1 .. Len(names) :
        /\ LowerStr(names[i]) = LowerStr(label)
        /\ \A j \in 1 .. i - 1 : LowerStr(names[j]) # LowerStr(label)

\* get_brand_sku_by_product_names, lines 53-88: a dict from the search terms
\* that match a row to the rows they match, in the order the store returns
\* them; {} when there is nothing to ask or the query fails.  execute_query
\* (lines 33-47) raises when the connection or the statement fails: fails
\* names the calls of the request on which it does
get_brand_sku_by_product_names(names, st, fails) ==
    IF names = <<>> \/ "resolve" \in fails THEN <<>>
    ELSE LET Matches(row) == \E i \in 1 .. Len(names) :
                                 LowerStr(row.label) = LowerStr(names[i])
             rows == SelectSeq(st.skus, Matches)
             Term(row) == names[FirstTerm(names, row.label)]
             keys == {Term(rows[i]) : i \in 1 .. Len(rows)}
         IN  [name \in keys |-> SelectSeq(rows, LAMBDA row : Term(row) = name)]

\* the elements of a list
Range(list) == {list[i] : i \in 1 .. Len(list)}

\* the CASE expressions of lines 151-177: the bucket of a price; the labels
\* are written without the rupee sign, max_price 99.99 is Rs(100) - 1
PriceRangeCase(p) ==
    IF p < Rs(100) THEN [facet_value |-> "Under 100", min_price |-> 0, max_price |-> Rs(100) - 1]
    ELSE IF p < Rs(250) THEN [facet_value |-> "100 - 250", min_price |-> Rs(100), max_price |-> Rs(250) - 1]
    ELSE IF p < Rs(500) THEN [facet_value |-> "250 - 500", min_price |-> Rs(250), max_price |-> Rs(500) - 1]
    ELSE IF p < Rs(1000) THEN [facet_value |-> "500 - 1,000", min_price |-> Rs(500), max_price |-> Rs(1000) - 1]
    ELSE IF p < Rs(2500) THEN [facet_value |-> "1,000 - 2,500", min_price |-> Rs(1000), max_price |-> Rs(2500) - 1]
    ELSE IF p < Rs(5000) THEN [facet_value |-> "2,500 - 5,000", min_price |-> Rs(2500), max_price |-> Rs(5000) - 1]
    ELSE [facet_value |-> "Above 5,000", min_price |-> Rs(5000), max_price |-> Rs(999999)]

\* the seven buckets by ascending min_price
PriceBuckets ==
    <<PriceRangeCase(Rs(1)), PriceRangeCase(Rs(100)), PriceRangeCase(Rs(250)),
      PriceRangeCase(Rs(500)), PriceRangeCase(Rs(1000)), PriceRangeCase(Rs(2500)),
      PriceRangeCase(Rs(5000))>>

\* get_price_range_facets, lines 144-205: per bucket that holds a row, the
\* number of rows, buckets by ascending min_price (ORDER BY, line 185)
get_price_range_facets(ids, st, fails) ==
    IF ids = <<>> \/ "price" \in fails THEN <<>>
    ELSE LET Counted(row) ==
                 /\ row.id \in Range(ids)
                 /\ row.price # <<>>
                 /\ row.price[1] > 0
                 /\ row.price[1] < Rs(100000)
             rows == SelectSeq(st.skus, Counted)
             In(b) == SelectSeq(rows, LAMBDA row : PriceRangeCase(row.price[1]) = b)
             groups == [i \in 1 .. Len(PriceBuckets) |->
                           [facet_value |-> PriceBuckets[i].facet_value,
                            count |-> Len(In(PriceBuckets[i])),
                            min_price |-> PriceBuckets[i].min_price,
                            max_price |-> PriceBuckets[i].max_price]]
         IN  SelectSeq(groups, LAMBDA g : g.count > 0)

\* a filter condition that accepts a price outside the interval's low end
PriceConditionOpenBelow(value, p) ==
    CASE value = "Under 100" -> p < Rs(100)
      [] value = "100 - 250" -> p > Rs(100) /\ p < Rs(250)
      [] value = "250 - 500" -> p >= Rs(250) /\ p < Rs(500)
      [] value = "500 - 1,000" -> p >= Rs(500) /\ p < Rs(1000)
      [] value = "1,000 - 2,500" -> p >= Rs(1000) /\ p < Rs(2500)
      [] value = "2,500 - 5,000" -> p >= Rs(2500) /\ p < Rs(5000)
      [] value = "Above 5,000" -> p >= Rs(5000)
      [] OTHER -> FALSE

\* lines 266-280: the condition one selected price range puts on the price
PriceCondition(value, p) ==
    CASE value = "Under 100" -> p < Rs(100)
      [] value = "100 - 250" -> p >= Rs(100) /\ p < Rs(250)
      [] value = "250 - 500" -> p >= Rs(250) /\ p < Rs(500)
      [] value = "500 - 1,000" -> p >= Rs(500) /\ p < Rs(1000)
      [] value = "1,000 - 2,500" -> p >= Rs(1000) /\ p < Rs(2500)
      [] value = "2,500 - 5,000" -> p >= Rs(2500) /\ p < Rs(5000)
      [] value = "Above 5,000" -> p >= Rs(5000)
      [] OTHER -> FALSE

\* the selected values lines 267-280 know
PriceLabels == {PriceBuckets[i].facet_value : i \in 1 .. Len(PriceBuckets)}

\* lines 261-299: the keys of facet_filters that put a condition on a row
ConditionKeys(filters) ==
    {key \in DOMAIN filters :
        /\ filters[key] # {}
        /\ key = "price_range" => filters[key] \cap PriceLabels # {}}

\* lines 263-299: the condition of one key on a brandSKU row
KeyCondition(key, values, row, st) ==
    IF key = "price_range"
    THEN /\ row.price # <<>>
         /\ \E value \in values : PriceCondition(value, row.price[1])
    ELSE \E f \in st.facets :
             /\ f.sku = row.id
             /\ f.key = key
             /\ Coalesce(f) \in values
             /\ f.isActive
             /\ ValuePresent(f)

\* get_brand_skus_matching_facets, lines 253-315; a list of selected values
\* is the set of its elements
get_brand_skus_matching_facets(filters, ids, st, fails) ==
    IF DOMAIN filters = {} \/ ids = <<>> THEN ids
    ELSE IF ConditionKeys(filters) = {} THEN ids
    ELSE IF "match" \in fails THEN <<>>
    ELSE LET Selected(row) ==
                 /\ row.id \in Range(ids)
                 /\ \A key \in ConditionKeys(filters) :
                        KeyCondition(key, filters[key], row, st)
             rows == SelectSeq(st.skus, Selected)
         IN  [i \in 1 .. Len(rows) |-> rows[i].id]

\* the store's collation of the facet keys and values in play
Collation ==
    <<"N/A", "Red", "blue", "colour", "large", "price_range", "red", "size", "small">>

Rank(str) == CHOOSE i \in 1 .. Len(Collation) : Collation[i] = str

\* ORDER BY bsf."standardKey", facet_value (line 122); rows equal in both
\* are taken by brandSKUId
RowBefore(f, g) ==
    \/ Rank(f.key) < Rank(g.key)
    \/ f.key = g.key /\ Rank(Coalesce(f)) < Rank(Coalesce(g))
    \/ f.key = g.key /\ Coalesce(f) = Coalesce(g) /\ f.sku < g.sku

RECURSIVE OrderRows(_)
OrderRows(rows) ==
    IF rows = {} THEN <<>>
    ELSE LET first == CHOOSE f \in rows : \A g \in rows \ {f} : RowBefore(f, g)
         IN  <<first>> \o OrderRows(rows \ {first})

\* dict.__setitem__ on a dict kept as the sequence of its (key, value) pairs
SetItem(dict, key, value) ==
    IF \E i \in 1 .. Len(dict) : dict[i].key = key
    THEN [i \in 1 .. Len(dict) |->
             IF dict[i].key = key THEN [key |-> key, items |-> value] ELSE dict[i]]
    ELSE Append(dict, [key |-> key, items |-> value])

\* lines 127-132: the rows grouped by standard_key, keys in the order met
RECURSIVE GroupByKey(_)
GroupByKey(rows) ==
    IF rows = <<>> THEN <<>>
    ELSE LET before == GroupByKey(SubSeq(rows, 1, Len(rows) - 1))
             row == rows[Len(rows)]
             item == [brand_sku_id |-> row.sku, facet_value |-> Coalesce(row)]
             old == IF \E i \in 1 .. Len(before) : before[i].key = row.key
                    THEN (CHOOSE e \in Range(before) : e.key = row.key).items
                    ELSE <<>>
         IN  SetItem(before, row.key, Append(old, item))

\* get_facets_by_brand_sku_ids, lines 90-142
get_facets_by_brand_sku_ids(ids, only_active_keys, st, fails) ==
    IF ids = <<>> \/ "facets" \in fails THEN <<>>
    ELSE LET rows == {f \in st.facets :
                         /\ f.sku \in Range(ids)
                         /\ f.key # NULL
                         /\ f.isActive
                         /\ ValuePresent(f)
                         /\ only_active_keys => f.key \in st.activeKeys}
             facets == GroupByKey(OrderRows(rows))
             price_facets == get_price_range_facets(ids, st, fails)
         IN  IF price_facets # <<>> THEN SetItem(facets, "price_range", price_facets)
             ELSE facets

\* a store whose brandSKU holds one row, of price p
OneRowStore(p) ==
    [skus |-> <<Sku(1, <<"pepsi">>, 20, <<"PEPSI">>, <<p>>)>>, facets |-> {},
     activeKeys |-> {}]

\* the row's price range as the aggregation of get_price_range_facets sees
\* it, and as the price_range filters of get_brand_skus_matching_facets do
PriceRanges ==
    /\ bucket = <<>>
    /\ bucket' = <<get_price_range_facets(<<1>>, OneRowStore(price), {})>>
    /\ intervals' =
           {value \in PriceLabels :
               get_brand_skus_matching_facets([price_range |-> {value}], <<1>>,
                                              OneRowStore(price), {}) # <<>>}
    /\ UNCHANGED <<price, matchVars, storeVars, requestVars, filterVars,
                   connVars, clientVars,
                   embedVars, buildVars, searchVars>>

\* one call of get_brand_skus_matching_facets, of which the store calls in
\* fails fail
MatchFacets(f, fails) ==
    /\ matching = <<>>
    /\ facet_filters' = f
    /\ dbFail' = fails
    /\ matching' = <<get_brand_skus_matching_facets(f, candidate_ids, store, fails)>>
    /\ UNCHANGED <<candidate_ids, store, args, only_active_facets, posts, queries,
                   product_names, facetRuns, matchVars, priceVars, connVars,
                   clientVars,
                   embedVars, buildVars, searchVars>>

----------------------------------------------------------------------------
(* app.py: the facets of a result set *)

\* list.sort(key=...) on items paired with their keys and, with the keys
\* negated, list.sort(key=..., reverse=True): both keep equal elements in
\* their order
SortItems(keyed) ==
    LET sorted == SortStable(keyed)
    IN  [i \in 1 .. Len(sorted) |-> sorted[i].item]

RECURSIVE SumCounts(_)
SumCounts(options) ==
    IF options = <<>> THEN 0 ELSE Head(options).count + SumCounts(Tail(options))

\* lines 206-211: value_counts, a dict in the order the values are met
RECURSIVE ValueCounts(_)
ValueCounts(items) ==
    IF items = <<>> THEN <<>>
    ELSE LET before == ValueCounts(SubSeq(items, 1, Len(items) - 1))
             value == items[Len(items)].facet_value
         IN  IF \E i \in 1 .. Len(before) : before[i].value = value
             THEN [i \in 1 .. Len(before) |->
                      IF before[i].value = value
                      THEN [before[i] EXCEPT !.count = @ + 1] ELSE before[i]]
             ELSE Append(before, [value |-> value, count |-> 1])

\* lines 187-203: the options of the price_range key, by ascending min_price
PriceOptions(items) ==
    SortItems([i \in 1 .. Len(items) |->
                  [score |-> items[i].min_price,
                   item |-> [value |-> items[i].facet_value, count |-> items[i].count,
                             min_price |-> items[i].min_price,
                             max_price |-> items[i].max_price]]])

\* lines 205-226: the options of any other key, by descending count
ValueOptions(items) ==
    LET counts == ValueCounts(items)
    IN  SortItems([i \in 1 .. Len(counts) |->
                      [score |-> -counts[i].count, item |-> counts[i]]])

\* lines 239-245: entries by descending total
ByTotal(entries) ==
    SortItems([i \in 1 .. Len(entries) |->
                  [score |-> -entries[i].total, item |-> entries[i]]])

\* item['count'] of line 192 raises KeyError on a row that has no count: a
\* brandSKUFacet row whose standardKey is price_range
LacksCount(entry) ==
    /\ entry.key = "price_range"
    /\ \E i \in 1 .. Len(entry.items) : "count" \notin DOMAIN entry.items[i]

\* lines 186-228: processed and facet_totals, in the order of facets
Processed(facets) ==
    [i \in 1 .. Len(facets) |->
        LET options == IF facets[i].key = "price_range"
                       THEN PriceOptions(facets[i].items)
                       ELSE ValueOptions(facets[i].items)
        IN  [key |-> facets[i].key, options |-> options, total |-> SumCounts(options)]]

\* _process_facets_for_ui that orders every key by its total
process_facets_by_total_only(facets) ==
    IF \E i \in 1 .. Len(facets) : LacksCount(facets[i])
    THEN [raised |-> "KeyError", ordered |-> <<>>]
    ELSE LET sorted == ByTotal(Processed(facets))
         IN  [raised |-> None,
              ordered |-> [i \in 1 .. Len(sorted) |->
                              [key |-> sorted[i].key, options |-> sorted[i].options]]]

\* _process_facets_for_ui, lines 180-252: price_range first, the other keys
\* by descending total; the ordered dict is the sequence of its pairs
_process_facets_for_ui(facets) ==
    IF \E i \in 1 .. Len(facets) : LacksCount(facets[i])
    THEN [raised |-> "KeyError", ordered |-> <<>>]
    ELSE LET processed == Processed(facets)
             first == SelectSeq(processed, LAMBDA e : e.key = "price_range")
             other_facets == SelectSeq(processed, LAMBDA e : e.key # "price_range")
             sorted == first \o ByTotal(other_facets)
         IN  [raised |-> None,
              ordered |-> [i \in 1 .. Len(sorted) |->
                              [key |-> sorted[i].key, options |-> sorted[i].options]]]

\* lines 143-147: the ids of all rows of the mapping
AllBrandSkuIds(mapping, st) ==
    LET Mapped(row) == \E name \in DOMAIN mapping : row \in Range(mapping[name])
        rows == SelectSeq(st.skus, Mapped)
    IN  [i \in 1 .. Len(rows) |-> rows[i].id]

\* the answers of lines 135, 141, 155-167 and 334-338; brand_sku_mapping is
\* <<>> in an answer that has no such key
FacetsAnswer(facets, complete, err) ==
    [facets |-> facets, facets_complete |-> complete, error |-> err,
     brand_sku_mapping |-> <<>>]

\* get_facets_async that aggregates over the rows the filters keep
get_facets_async_filtered(names, filters, only_active, st, fails) ==
    LET mapping == get_brand_sku_by_product_names(names, st, fails)
        ids == get_brand_skus_matching_facets(filters, AllBrandSkuIds(mapping, st),
                                              st, fails)
        ui == _process_facets_for_ui(
                  get_facets_by_brand_sku_ids(ids, only_active, st, fails))
    IN  IF names = <<>> \/ DOMAIN mapping = {} THEN FacetsAnswer(<<>>, TRUE, None)
        ELSE IF ui.raised # None THEN FacetsAnswer(<<>>, FALSE, ui.raised)
        ELSE [FacetsAnswer(ui.ordered, TRUE, None) EXCEPT !.brand_sku_mapping = mapping]

\* get_facets_async, lines 131-167; the ids are handed to the store as a
\* list whose order it does not read
get_facets_async(names, filters, only_active, st, fails) ==
    LET mapping == get_brand_sku_by_product_names(names, st, fails)
        ids == AllBrandSkuIds(mapping, st)
        ui == _process_facets_for_ui(
                  get_facets_by_brand_sku_ids(ids, only_active, st, fails))
    IN  IF names = <<>> \/ DOMAIN mapping = {} THEN FacetsAnswer(<<>>, TRUE, None)
        ELSE IF ui.raised # None THEN FacetsAnswer(<<>>, FALSE, ui.raised)
        ELSE [FacetsAnswer(ui.ordered, TRUE, None) EXCEPT !.brand_sku_mapping = mapping]

----------------------------------------------------------------------------
(* app.py: search_with_facets *)

\* the arguments search_with_facets passes to hybrid_search, lines 52-53
HandlerPhoneticBoost == 20
HandlerCandidatePool == 100

\* request.args.get('k', 50), line 289
DefaultK == 50

\* ranked is, for the reader of the model, what the engine returned
NoResponse ==
    [called |-> FALSE, escaped |-> FALSE, embed_ok |-> FALSE,
     results |-> <<>>, facets |-> <<>>, total_results |-> 0, error |-> None,
     search_complete |-> FALSE, facets_loading |-> FALSE,
     product_names |-> <<>>, ranked |-> <<>>]

Answer(embedOk, res, err, complete, loading) ==
    [called |-> TRUE, escaped |-> FALSE, embed_ok |-> embedOk,
     results |-> res, facets |-> <<>>, total_results |-> Len(res), error |-> err,
     search_complete |-> complete, facets_loading |-> loading,
     product_names |-> <<>>, ranked |-> <<>>]

\* line 68: the labels of the hits that have one
ProductNames(hits) ==
    LET labelled == SelectSeq(hits, LAMBDA hit : hit.meta.label # <<>>)
    IN  [i \in 1 .. Len(labelled) |-> labelled[i].meta.label]

\* _enhance_results_with_brand_info, lines 254-275: a copy of each hit, with
\* the fields of the first brandSKU row of its label when there is one
_enhance_results_with_brand_info(hits, mapping) ==
    [i \in 1 .. Len(hits) |->
        LET hit == hits[i]
        IN  IF hit.meta.label \in DOMAIN mapping /\ mapping[hit.meta.label] # <<>>
            THEN LET first_brand_sku == mapping[hit.meta.label][1]
                 IN  [score |-> hit.score, row |-> hit.row, meta |-> hit.meta,
                      brand_sku_id |-> first_brand_sku.id,
                      brand_sku_label |-> first_brand_sku.label,
                      brand_name |-> first_brand_sku.brandLabel,
                      brand_id |-> first_brand_sku.brandId]
            ELSE hit]

\* lines 70-104: enhanced_results; filtered_results (lines 87-95) are the
\* hits one of whose rows is among the ids kept
EnhancedResults(hits, filters, st, fails) ==
    LET names == ProductNames(hits)
        mapping == get_brand_sku_by_product_names(names, st, fails)
        ids == AllBrandSkuIds(mapping, st)
        keep == get_brand_skus_matching_facets(filters, ids, st, fails)
        filtered_results ==
            SelectSeq(hits, LAMBDA hit :
                /\ hit.meta.label \in DOMAIN mapping
                /\ \E j \in 1 .. Len(mapping[hit.meta.label]) :
                       mapping[hit.meta.label][j].id \in Range(keep))
    IN  IF DOMAIN filters = {} \/ names = <<>> THEN hits
        ELSE IF DOMAIN mapping = {} THEN hits
        ELSE IF ids = <<>> THEN hits
        ELSE _enhance_results_with_brand_info(filtered_results, mapping)

\* app.py lines 258-271: what the lookup is after the brand fields were
\* written to the copies of the results that got them; a result is the item
\* of hybrid_search line 148
RECURSIVE LookupAfterEnhance(_, _)
LookupAfterEnhance(lookup, enhanced) ==
    IF enhanced = <<>> THEN lookup
    ELSE LET hit == enhanced[Len(enhanced)]
             result == dict_copy(RecordRef(hit.row))
             enhanced_result == dict_copy(result)
             before == LookupAfterEnhance(lookup, SubSeq(enhanced, 1, Len(enhanced) - 1))
         IN  IF "brand_sku_id" \notin DOMAIN hit THEN before
             ELSE SetKey(SetKey(SetKey(SetKey(before,
                      enhanced_result, "brand_sku_id", hit.brand_sku_id),
                      enhanced_result, "brand_sku_label", hit.brand_sku_label),
                      enhanced_result, "brand_name", hit.brand_name),
                      enhanced_result, "brand_id", hit.brand_id)

\* what the lookup is after a search_with_facets call: hybrid_search lines
\* 147-150, then the enhancement of app.py line 98
LookupAfterRequest(lookup, d, q, filters, kk, st, fails, r1, r2) ==
    LET h == hybrid_search(lookup, d, q, kk, HandlerPhoneticBoost,
                           HandlerCandidatePool, r1, r2)
    IN  LookupAfterEnhance(LookupAfterScoring(lookup, h.results),
                           EnhancedResults(h.results, filters, st, fails))

\* the statements search_with_facets sends to the store
StoreCalls(hits, filters, st, fails) ==
    LET names == ProductNames(hits)
        mapping == get_brand_sku_by_product_names(names, st, fails)
    IN  IF DOMAIN filters = {} \/ names = <<>> THEN 0
        ELSE IF DOMAIN mapping = {} \/ ConditionKeys(filters) = {} THEN 1
        ELSE 2

\* search_with_facets with no handler around the search
search_with_facets_uncaught(lookup, d, q, filters, kk, st, fails, r1, r2) ==
    LET h == hybrid_search(lookup, d, q, kk, HandlerPhoneticBoost,
                           HandlerCandidatePool, r1, r2)
    IN  IF h.raised # None
        THEN [NoResponse EXCEPT !.called = TRUE, !.escaped = TRUE,
                                !.embed_ok = embed_text(q, r1, r2).ok]
        ELSE IF h.results = <<>> THEN Answer(TRUE, <<>>, None, TRUE, FALSE)
        ELSE [Answer(TRUE, EnhancedResults(h.results, filters, st, fails),
                     None, TRUE, TRUE)
                 EXCEPT !.product_names = ProductNames(h.results),
                        !.ranked = h.results]

\* search_with_facets, lines 45-129: the search, the empty-result answer,
\* the facet filters, the answer with hits, and the handler of line 119 that
\* turns any exception into an error answer
search_with_facets(lookup, d, q, filters, kk, st, fails, r1, r2) ==
    LET h == hybrid_search(lookup, d, q, kk, HandlerPhoneticBoost,
                           HandlerCandidatePool, r1, r2)
    IN  IF h.raised # None
        THEN Answer(embed_text(q, r1, r2).ok, <<>>, h.raised, FALSE, FALSE)
        ELSE IF h.results = <<>> THEN Answer(TRUE, <<>>, None, TRUE, FALSE)
        ELSE [Answer(TRUE, EnhancedResults(h.results, filters, st, fails),
                     None, TRUE, TRUE)
                 EXCEPT !.product_names = ProductNames(h.results),
                        !.ranked = h.results]

SearchWithFacets(r1, r2) ==
    /\ response' = search_with_facets(product_lookup, dist, query, facet_filters, k,
                                      store, dbFail, r1, r2)
    /\ LET e == embed_text(query, r1, r2)
       IN  embedDims' = IF e.ok THEN embedDims \cup {e.vec.dim} ELSE embedDims
    /\ product_lookup' = LookupAfterRequest(product_lookup, dist, query, facet_filters,
                                            k, store, dbFail, r1, r2)
    /\ UNCHANGED <<query, k, candidate_pool, dist, runs,
                   embedVars, buildVars, facetVars>>

----------------------------------------------------------------------------
(* app.py: the /search and /facets routes *)

\* int(request.args.get('k', 50)), line 289: ValueError on a string that is
\* no integer
ParseInt(str) ==
    CASE str = "absent" -> [ok |-> TRUE, value |-> DefaultK]
      [] str = "1" -> [ok |-> TRUE, value |-> 1]
      [] str = " 2 " -> [ok |-> TRUE, value |-> 2]
      [] str = "-1" -> [ok |-> TRUE, value |-> -1]
      [] OTHER -> [ok |-> FALSE, value |-> 0]

\* lines 293-299 and 325-331: per facet_ parameter, its values that are not
\* blank; a list of values is the set of its elements
ParseFilters(params) ==
    [key \in DOMAIN params |-> {v \in Range(params[key]) : TrimValue(v) # ""}]

\* search, lines 285-316: the ValueError of line 289 leaves the view, the
\* request ends in an unhandled exception; lines 301-310 answer the empty
\* query
search(a, lookup, d, st, fails, r1, r2) ==
    IF ~ParseInt(a.k).ok THEN [NoResponse EXCEPT !.called = TRUE, !.escaped = TRUE]
    ELSE IF Strip(a.q) = <<>>
    THEN Answer(FALSE, <<>>, "No search query provided", FALSE, FALSE)
    ELSE search_with_facets(lookup, d, Strip(a.q), ParseFilters(a.facets),
                            ParseInt(a.k).value, st, fails, r1, r2)

\* the /search request of a run: a its parameters, fails the store calls
\* that fail while it is handled, r1 and r2 the embedding service's answers
Search(a, fails, r1, r2) ==
    LET reached == ParseInt(a.k).ok /\ Strip(a.q) # <<>>
        kk == ParseInt(a.k).value
        e == embed_text(Strip(a.q), r1, r2)
        h == hybrid_search(product_lookup, dist, Strip(a.q), kk, HandlerPhoneticBoost,
                           HandlerCandidatePool, r1, r2)
    IN  /\ ~response.called
        /\ args' = a
        /\ dbFail' = fails
        /\ response' = search(a, product_lookup, dist, store, fails, r1, r2)
        /\ query' = Strip(a.q)
        /\ k' = IF ParseInt(a.k).ok THEN kk ELSE k
        /\ only_active_facets' = (LowerValue(a.active_facets) = "true")
        /\ facet_filters' = ParseFilters(a.facets)
        /\ posts' = IF reached THEN e.requests ELSE 0
        /\ queries' = IF reached /\ h.raised = None /\ h.results # <<>>
                      THEN StoreCalls(h.results, ParseFilters(a.facets), store, fails)
                      ELSE 0
        /\ embedDims' = IF reached /\ e.ok THEN embedDims \cup {e.vec.dim} ELSE embedDims
        /\ product_lookup' =
               IF reached
               THEN LookupAfterRequest(product_lookup, dist, Strip(a.q),
                                       ParseFilters(a.facets), kk, store, fails, r1, r2)
               ELSE product_lookup
        /\ UNCHANGED <<candidate_pool, dist, runs, store,
                       product_names, facetRuns, matchVars, priceVars, filterVars,
                       connVars, clientVars, embedVars, buildVars>>

\* get_facets, lines 318-343
get_facets(names, filters, only_active, st, fails) ==
    IF names = <<>> THEN FacetsAnswer(<<>>, FALSE, "No product names provided")
    ELSE get_facets_async(names, filters, only_active, st, fails)

NotAsked == FacetsAnswer(<<>>, FALSE, "not asked")

\* one /facets request for the products named, under the filters f
GetFacets(f) ==
    /\ facetRuns[f] = NotAsked
    /\ facetRuns' = [facetRuns EXCEPT ![f] =
                        get_facets(product_names, f, only_active_facets, store, dbFail)]
    /\ UNCHANGED <<args, facet_filters, only_active_facets, posts, queries,
                   product_names, storeVars, matchVars, priceVars, filterVars,
                   connVars, clientVars,
                   embedVars, buildVars, searchVars>>

----------------------------------------------------------------------------
(* database.py: the DatabaseConnection that the request threads share *)

\* the request threads of the server, and the calls each makes
MaxThreads == 2
MaxCalls == 2

Threads == 1 .. MaxThreads

\* __init__, lines 11-13, and app.py line 35: one object, not connected
ConnIdle ==
    /\ _connection = 0
    /\ opened = 0
    /\ caller = [t \in Threads |-> [pc |-> "idle", handle |-> 0, calls |-> 0]]

\* execute_query, line 35: the test of self._connection
ExecuteQuery(t) ==
    /\ caller[t].pc = "idle"
    /\ caller[t].calls < MaxCalls
    /\ caller' = [caller EXCEPT ![t].pc = IF _connection = 0 THEN "connect" ELSE "cursor"]
    /\ UNCHANGED <<_connection, opened, matchVars, storeVars, requestVars, priceVars,
                   filterVars, clientVars,
                   embedVars, buildVars, searchVars>>

\* connect, lines 17-22: a new connection is established and stored
Connect(t) ==
    /\ caller[t].pc = "connect"
    /\ opened' = opened + 1
    /\ _connection' = opened + 1
    /\ caller' = [caller EXCEPT ![t].pc = "cursor"]
    /\ UNCHANGED <<matchVars, storeVars, requestVars, priceVars,
                   filterVars, clientVars,
                   embedVars, buildVars, searchVars>>

\* connect, lines 23-25: psycopg2.connect raised, and so does execute_query
ConnectRaises(t) ==
    /\ caller[t].pc = "connect"
    /\ caller' = [caller EXCEPT ![t].pc = "idle", ![t].calls = @ + 1]
    /\ UNCHANGED <<_connection, opened, matchVars, storeVars, requestVars, priceVars,
                   filterVars, clientVars,
                   embedVars, buildVars, searchVars>>

\* line 39: a cursor of the connection self._connection names now
OpenCursor(t) ==
    /\ caller[t].pc = "cursor"
    /\ caller' = [caller EXCEPT ![t].pc = "execute", ![t].handle = _connection]
    /\ UNCHANGED <<_connection, opened, matchVars, storeVars, requestVars, priceVars,
                   filterVars, clientVars,
                   embedVars, buildVars, searchVars>>

\* lines 40-47: the statement was executed and fetched, or raised
Fetch(t) ==
    /\ caller[t].pc = "execute"
    /\ caller' = [caller EXCEPT ![t].pc = "idle", ![t].handle = 0, ![t].calls = @ + 1]
    /\ UNCHANGED <<_connection, opened, matchVars, storeVars, requestVars, priceVars,
                   filterVars, clientVars,
                   embedVars, buildVars, searchVars>>

----------------------------------------------------------------------------
(* The engine as constructed, and one query put to it *)

SearchIdle ==
    /\ product_lookup = <<>>
    /\ query = <<>>
    /\ k = 0
    /\ candidate_pool = 0
    /\ dist = <<>>
    /\ runs = [b \in Boosts |-> NoRun]
    /\ response = NoResponse
    /\ embedDims = {}

InitQuery ==
    /\ product_lookup \in Lookups
    /\ query \in Queries
    /\ k \in -1 .. MaxK
    /\ dist \in [1 .. Len(product_lookup) -> Dists]
    /\ runs = [b \in Boosts |-> NoRun]
    /\ response = NoResponse
    /\ embedDims = {}

----------------------------------------------------------------------------
(* The store and the requests before anything is asked of them *)

StoreIdle ==
    /\ store = [skus |-> <<>>, facets |-> {}, activeKeys |-> {}]
    /\ dbFail = {}

NoArgs == [q |-> <<>>, k |-> "absent", active_facets |-> "absent", facets |-> <<>>]

\* a dict of no key
NoFilters == <<>>

RequestIdle ==
    /\ args = NoArgs
    /\ facet_filters = NoFilters
    /\ only_active_facets = FALSE
    /\ posts = 0
    /\ queries = 0
    /\ product_names = <<>>
    /\ facetRuns = <<>>

PriceIdle ==
    /\ price = 0
    /\ bucket = <<>>
    /\ intervals = {}

FilterIdle ==
    /\ candidate_ids = <<>>
    /\ matching = <<>>

FacetIdle ==
    /\ MatchIdle /\ StoreIdle /\ RequestIdle /\ PriceIdle /\ FilterIdle /\ ConnIdle
    /\ embedded = <<>>

----------------------------------------------------------------------------
(* The build pipeline: build_index calls, each running one parallel embed *)

Init == EmbedIdle /\ BuildIdle /\ SearchIdle /\ FacetIdle

Next ==
    \/ \E c \in Catalogues : \E mr \in 0 .. MaxRows - 1 : \E w \in Workers :
           BuildStart(c, mr, w)
    \/ \E i \in Idx : TaskStart(i)
    \/ \E i \in Idx : \E r1 \in Replies : \E r2 \in SecondReplies(r1) : TaskFinish(i, r1, r2)
    \/ \E i \in Idx : Collect(i)
    \/ Unwind
    \/ EmbedReturn
    \/ BuildEmbedRaised
    \/ BuildWriteIndex
    \/ BuildWriteLookup
    \/ BuildWriteVocab
    \/ BuildWriteMeta
    \/ BuildPersistError
    \/ BuildCrash

Spec == Init /\ [][Next]_vars

----------------------------------------------------------------------------
(* The rerank: hybrid_search called on one query with each of the boosts *)

InitRerank ==
    /\ EmbedIdle /\ BuildIdle /\ disk = Absent /\ FacetIdle
    /\ InitQuery /\ candidate_pool \in 0 .. MaxPool

\* here the embedding service answers the first POST with a vector, of the
\* index's length or of another
RerankReplies == {r \in Replies : r.embedding > 0}

NextRerank ==
    \E b \in Boosts : \E r1 \in RerankReplies : HybridSearch(b, r1, r1)

SpecRerank == InitRerank /\ [][NextRerank]_vars

----------------------------------------------------------------------------
(* The scores: hybrid_search called with a boost of either sign *)

\* the phonetic_boost values tried: search_cli.py passes --boost, any float
ScoreBoosts == {-6000, DEFAULT_PHONETIC_BOOST}

InitScore ==
    /\ EmbedIdle /\ BuildIdle /\ disk = Absent /\ FacetIdle
    /\ product_lookup \in Lookups
    /\ query \in Queries
    /\ k = MaxK
    /\ candidate_pool = MaxPool
    /\ dist \in [1 .. Len(product_lookup) -> Dists]
    /\ runs = [b \in ScoreBoosts |-> NoRun]
    /\ response = NoResponse
    /\ embedDims = {}

NextScore ==
    \E b \in ScoreBoosts : \E r1 \in RerankReplies : HybridSearch(b, r1, r1)

SpecScore == InitScore /\ [][NextScore]_vars

----------------------------------------------------------------------------
(* The request handler: search_with_facets called again and again *)

InitSearch ==
    /\ EmbedIdle /\ BuildIdle /\ disk = Absent /\ FacetIdle
    /\ InitQuery /\ candidate_pool = HandlerCandidatePool

NextSearch ==
    \E r1 \in Replies : \E r2 \in SecondReplies(r1) : SearchWithFacets(r1, r2)

SpecSearch == InitSearch /\ [][NextSearch]_vars

----------------------------------------------------------------------------
(* The tolerant comparison: approx_code_match called on one record code *)

InitMatch ==
    /\ EmbedIdle /\ BuildIdle /\ disk = Absent /\ SearchIdle
    /\ StoreIdle /\ RequestIdle /\ PriceIdle /\ FilterIdle /\ ConnIdle
    /\ embedded = <<>>
    \* the codes a record may carry, the empty code among them: lines
    \* 114-117 and 127-130 upper-case a code before it is compared
    /\ record_code \in SeqsUpTo(CodeLetters, MaxCodeLen)
    \* _query_phonetic_codes never adds an empty code
    /\ qcodes \in SUBSET {<<"K", "L">>, <<"K", "L", "T">>, <<"T">>, <<"L", "K", "T">>}
    /\ matched = <<>>

NextMatch == ApproxCodeMatch

SpecMatch == InitMatch /\ [][NextMatch]_vars

----------------------------------------------------------------------------
(* The /search request: one engine, one store, one request *)

\* the most rows of brandSKU
MaxSkus == 3

\* the rows brandSKU may hold, by id: two rows of one product whose labels
\* differ in case, one row of another
SkuRows ==
    <<Sku(1, <<"Colgate", " ", "Total">>, 10, <<"Colgate">>, <<Rs(50)>>),
      Sku(2, <<"colgate", " ", "total">>, 10, <<"Colgate">>, <<Rs(150)>>),
      Sku(3, <<"pepsi">>, 20, <<"PEPSI">>, <<Rs(6000)>>)>>

\* the rows brandSKUFacet may hold
FacetPool ==
    {FacetRow(1, "colour", "Red", "red", TRUE),
     FacetRow(2, "colour", "blue", NULL, TRUE),
     FacetRow(3, "colour", "red", NULL, TRUE),
     FacetRow(1, "size", "N/A", NULL, TRUE),
     FacetRow(2, "size", "large", NULL, TRUE),
     FacetRow(3, "size", "small", NULL, TRUE),
     FacetRow(3, "size", "large", NULL, TRUE),
     FacetRow(1, "size", "large", NULL, FALSE)}

\* the stores: a brandSKU of at most MaxSkus rows, by id; a brandSKUFacet
\* of all the rows or all but one row of the colour key
Stores ==
    LET tables == {t \in SeqsUpTo(Range(SkuRows), Min(MaxSkus, Len(SkuRows))) :
                      \A i, j \in 1 .. Len(t) : i < j => t[i].id < t[j].id}
        facetTables == {FacetPool} \cup
                       {FacetPool \ {f} : f \in {g \in FacetPool : g.key = "colour"}}
    IN  {[skus |-> t, facets |-> ft, activeKeys |-> {"colour"}] :
            t \in tables, ft \in facetTables}

\* the facet_ parameters of a request
RawFilters ==
    {<<>>,
     [colour |-> <<"red">>],
     [colour |-> <<"red", "blue">>],
     [colour |-> <<" ">>],
     [price_range |-> <<"Under 100">>],
     [price_range |-> <<"cheap">>],
     [colour |-> <<"red">>, price_range |-> <<"100 - 250", "Above 5,000">>],
     [flavour |-> <<"mint">>]}

InitRoute ==
    /\ EmbedIdle /\ BuildIdle /\ disk = Absent
    /\ MatchIdle /\ RequestIdle /\ PriceIdle /\ FilterIdle /\ ConnIdle
    /\ embedded = <<>>
    \* two catalogue rows, one of which no brandSKU row names
    /\ product_lookup \in
           {l \in Lookups : Len(l) = 2 /\ l[1].label = <<"colgate", " ", "total">>}
    /\ dist = [i \in 1 .. Len(product_lookup) |-> 0]
    /\ store \in Stores
    /\ dbFail = {}
    /\ query = <<>>
    /\ k = 0
    /\ candidate_pool = HandlerCandidatePool
    /\ runs = [b \in Boosts |-> NoRun]
    /\ response = NoResponse
    /\ embedDims = {}

\* the embedding service answers with a vector of the index's length, or
\* cannot be reached
RouteReplies == {r \in Replies : r.kind = "neterr" \/ r.embedding = IndexDim}

NextRoute ==
    \E a \in [q : {<<>>, <<" ">>, <<" ", "colgate">>, <<"pepsi", " ", "total">>},
               k : {"absent", "1", "-1", "abc"},
               active_facets : {"absent", "TRUE"},
               facets : RawFilters] :
        \E fails \in SUBSET {"resolve", "match"} :
            \E r1 \in RouteReplies : Search(a, fails, r1, r1)

SpecRoute == InitRoute /\ [][NextRoute]_vars

----------------------------------------------------------------------------
(* The engine in service: searches and filtered requests, one after another *)

InitServe ==
    /\ EmbedIdle /\ BuildIdle /\ disk = Absent
    /\ MatchIdle /\ PriceIdle /\ FilterIdle /\ ConnIdle
    /\ embedded = <<>>
    /\ product_lookup \in
           {l \in Lookups : Len(l) = 2 /\ l[1].label = <<"colgate", " ", "total">>}
    /\ dist = [i \in 1 .. Len(product_lookup) |-> 0]
    /\ store \in {st \in Stores : Len(st.skus) >= 2}
    /\ dbFail = {}
    /\ query \in {<<"colgate">>, <<"pepsi", " ", "total">>}
    /\ k \in {1, 2}
    /\ facet_filters \in {NoFilters, ParseFilters([colour |-> <<"red", "blue">>])}
    /\ candidate_pool = HandlerCandidatePool
    /\ runs = [b \in Boosts |-> NoRun]
    /\ response = NoResponse
    /\ embedDims = {}
    /\ args = NoArgs
    /\ only_active_facets = FALSE
    /\ posts = 0
    /\ queries = 0
    /\ product_names = <<>>
    /\ facetRuns = <<>>

NextServe ==
    \/ \E r1 \in RouteReplies : SearchWithFacets(r1, r1)
    \/ \E b \in Boosts : \E r1 \in RouteReplies : HybridSearch(b, r1, r1)

SpecServe == InitServe /\ [][NextServe]_vars

----------------------------------------------------------------------------
(* The /facets requests: the same products asked for under several filters *)

InitFacets ==
    /\ EmbedIdle /\ BuildIdle /\ disk = Absent /\ SearchIdle
    /\ MatchIdle /\ PriceIdle /\ FilterIdle /\ ConnIdle
    /\ embedded = <<>>
    /\ args = NoArgs
    /\ facet_filters = NoFilters
    /\ posts = 0
    /\ queries = 0
    /\ product_names \in {<<>>,
                           <<<<"pepsi">>>>,
                           <<<<"colgate", " ", "total">>>>,
                           <<<<"colgate", " ", "total">>, <<"pepsi">>>>,
                           <<<<"Colgate", " ", "Total">>, <<"colgate", " ", "total">>>>}
    /\ only_active_facets \in BOOLEAN
    /\ store \in Stores
    /\ dbFail \in {{}, {"resolve"}, {"facets"}, {"price"}}
    /\ facetRuns =
           [f \in {ParseFilters(raw_f) :
                      raw_f \in {<<>>, [colour |-> <<"red">>],
                                 [price_range |-> <<"Under 100">>]}} |-> NotAsked]

NextFacets == \E f \in DOMAIN facetRuns : GetFacets(f)

SpecFacets == InitFacets /\ [][NextFacets]_vars

----------------------------------------------------------------------------
(* The price ranges: one row of brandSKU, aggregated and filtered *)

\* how far from a bucket boundary the prices tried lie, in hundredths
MaxOffset == 3

InitPrice ==
    /\ EmbedIdle /\ BuildIdle /\ disk = Absent /\ SearchIdle
    /\ MatchIdle /\ StoreIdle /\ RequestIdle /\ FilterIdle /\ ConnIdle
    /\ embedded = <<>>
    \* around the boundaries of lines 152-157 and 181-182, in rupees
    /\ price \in {Rs(b) + o : b \in {0, 100, 250, 500, 1000, 2500, 5000, 100000},
                              o \in -MaxOffset .. MaxOffset}
    /\ bucket = <<>>
    /\ intervals = {}

NextPrice == PriceRanges

SpecPrice == InitPrice /\ [][NextPrice]_vars

----------------------------------------------------------------------------
(* The facet filters: get_brand_skus_matching_facets called once *)

InitFilter ==
    /\ EmbedIdle /\ BuildIdle /\ disk = Absent /\ SearchIdle
    /\ MatchIdle /\ RequestIdle /\ PriceIdle /\ ConnIdle
    /\ embedded = <<>>
    /\ store \in Stores
    /\ dbFail = {}
    \* ids of rows, of a row the store does not hold (4), repeated ids
    /\ candidate_ids \in {<<>>, <<1>>, <<3, 1>>, <<1, 2, 3>>, <<2, 4>>, <<2, 2>>}
    /\ matching = <<>>

NextFilter ==
    \E raw_f \in RawFilters : \E fails \in {{}, {"match"}} :
        MatchFacets(ParseFilters(raw_f), fails)

SpecFilter == InitFilter /\ [][NextFilter]_vars

----------------------------------------------------------------------------
(* The embedding client: embed_text called once *)

\* one call of embed_text on the query; r1 and r2 are what the service
\* answers to the first and to the second POST, if they are sent
EmbedText(r1, r2) ==
    /\ embedded = <<>>
    /\ LET out == embed_text(query, r1, r2)
       IN  embedded' = <<[first |-> r1, second |-> r2,
                          payloads |-> Payloads(out.requests), out |-> out]>>
    /\ UNCHANGED <<matchVars, storeVars, requestVars, priceVars, filterVars, connVars,
                   embedVars, buildVars, searchVars>>

\* the answers of the service: those of Replies, an empty embedding beside a
\* singleton list, an empty list, and a list of one empty vector
EmbedReplies ==
    Replies \cup {JsonReply(0, TRUE, <<2>>), JsonReply(-1, TRUE, <<>>),
                  JsonReply(-1, TRUE, <<0>>)}

InitEmbed ==
    /\ EmbedIdle /\ BuildIdle /\ disk = Absent /\ FacetIdle
    /\ product_lookup = <<>>
    /\ query \in {<<>>, <<"colgate">>}
    /\ k = 0
    /\ candidate_pool = 0
    /\ dist = <<>>
    /\ runs = [b \in Boosts |-> NoRun]
    /\ response = NoResponse
    /\ embedDims = {}

NextEmbed == \E r1, r2 \in EmbedReplies : EmbedText(r1, r2)

SpecEmbed == InitEmbed /\ [][NextEmbed]_vars

----------------------------------------------------------------------------
(* The shared connection: the request threads call execute_query *)

InitConn == EmbedIdle /\ BuildIdle /\ SearchIdle /\ FacetIdle

NextConn ==
    \/ \E t \in Threads : ExecuteQuery(t)
    \/ \E t \in Threads : Connect(t)
    \/ \E t \in Threads : ConnectRaises(t)
    \/ \E t \in Threads : OpenCursor(t)
    \/ \E t \in Threads : Fetch(t)

SpecConn == InitConn /\ [][NextConn]_vars

----------------------------------------------------------------------------
(* Properties of the build pipeline *)

\* C1: when embed_texts_parallel returns, the matrix has one row per input
\* and row i is the vector the task of texts[i] produced, whatever the order
\* in which the tasks completed.
C1_OrderPreserved ==
    epc = "returned" =>
        /\ Len(matrix) = Len(texts)
        /\ \A i \in Idx : matrix[i] = task[i].vec /\ matrix[i].text = texts[i]

\* C1's case: a call returned whose tasks completed out of submission order
\* on different texts
C1_Witness ==
    /\ epc = "returned"
    /\ Len(texts) >= 2
    /\ texts[1] # texts[2]
    /\ order[1] # 1

\* C2: at every moment the index, lookup and meta files on disk all come from
\* the same build: all three the previous build's, or all three the new one's.
C2_AllOrNothing ==
    /\ disk.index.gen = disk.lookup.gen
    /\ disk.lookup.gen = disk.meta.gen

\* the catalogue rows a build ingests: the file's rows after the row limit
Ingested == raw

\* C3: after a build that returned, with N the number of ingested rows, the
\* lookup has N records, meta.num_items is N, the index holds N vectors, and
\* the i-th record and the i-th vector both come from the i-th row.
C3_IndexParity ==
    pc = "done" =>
        LET N == Len(Ingested)
        IN  /\ Len(disk.lookup.records) = N
            /\ disk.meta.num_items = N
            /\ Len(disk.index.vectors) = N
            /\ stats.num_items = N
            /\ \A i \in 1 .. N :
                   /\ disk.lookup.records[i].label = safe_lower(Ingested[i].product_name)
                   /\ disk.lookup.records[i].brandLabel = safe_lower(Ingested[i].brand_name)
                   /\ disk.lookup.records[i].category = safe_lower(Ingested[i].category_name)
                   /\ disk.index.vectors[i].text = PrepareRow(Ingested[i]).search_text

\* C3's case: a build of at least two different rows returned
C3_Witness ==
    /\ pc = "done"
    /\ Len(Ingested) >= 2
    /\ Ingested[1] # Ingested[2]

\* C4: a build that raised before persisting (a missing column, a failed
\* embedding, a dimension mismatch, a matrix of the wrong shape) has left
\* every artifact file as it found it.
C4_FailureWritesNothing ==
    (pc = "failed" /\ failStage \in {"prepare", "embed", "shape"}) => disk = diskAtStart

\* C4's case: a build over an existing artifact set raised on a dimension
\* mismatch
C4_Witness ==
    /\ pc = "failed"
    /\ failStage = "embed"
    /\ eerr = "mismatch"
    /\ disk.index.gen = "previous"

\* C5: once the loop has observed a vector of another length, the call ends
\* with an error, returns no matrix, and no request that had not started by
\* then is issued.
C5_FailFast ==
    /\ eerr = "mismatch" => (epc \in {"unwind", "raised"} /\ matrix = <<>>)
    /\ ~lateStart

----------------------------------------------------------------------------
(* Properties of the query path *)

\* C6: the length of the first vector embed_text returned is fixed: no later
\* call returns a vector of another length.
C6_DimensionFixed == Cardinality(embedDims) <= 1

\* C7: when the embedding request of a search fails, search_with_facets
\* lets no exception escape and answers with an error, no results, no facets
\* and total_results 0.
C7_EmbeddingFailureAnswered ==
    (response.called /\ ~response.embed_ok) =>
        /\ ~response.escaped
        /\ response.error # None
        /\ response.results = <<>>
        /\ response.facets = <<>>
        /\ response.total_results = 0

\* C7's case: a search of a non-empty query whose embedding request failed
C7_Witness ==
    /\ response.called
    /\ ~response.embed_ok
    /\ query # <<>>
    /\ response.error = "OllamaEmbeddingError"

\* the runs of hybrid_search that returned
Returned_(b) == runs[b].raised = None

\* C8: hybrid_search returns at most k hits (no hit when k is not positive).
C8_AtMostK == \A b \in Boosts : Returned_(b) => Len(runs[b].results) <= Max(k, 0)

\* where the vector search returned the row of a hit
AnnPos(b, row) == CHOOSE j \in 1 .. Len(runs[b].scored) : runs[b].scored[j].row = row

\* a comes before b in the order: by score, equal scores by the position the
\* vector search gave
Before(b, x, y) ==
    \/ x.score < y.score
    \/ x.score = y.score /\ AnnPos(b, x.row) < AnnPos(b, y.row)

\* C9: the hits are in non-decreasing order of score, hits of equal score in
\* the order the vector search returned them, and they are the first of that
\* order: the first k (or all candidates) when k is not negative.
C9_StableAscending ==
    \A b \in Boosts : Returned_(b) =>
        LET res == runs[b].results
            all == runs[b].scored
        IN  /\ \A i, j \in 1 .. Len(res) : i < j => Before(b, res[i], res[j])
            /\ \A i \in 1 .. Len(res) : \E j \in 1 .. Len(all) : all[j] = res[i]
            /\ \A j \in 1 .. Len(all) :
                   (\A i \in 1 .. Len(res) : res[i] # all[j]) =>
                       \A i \in 1 .. Len(res) : Before(b, res[i], all[j])
            /\ k >= 0 => Len(res) = Min(k, Len(all))

\* C9's case: two hits of equal score were returned, in the order the vector
\* search gave them, which is not the order of their rows
C9_Witness ==
    \E b \in Boosts :
        /\ Returned_(b)
        /\ Len(runs[b].results) >= 2
        /\ runs[b].results[1].score = runs[b].results[2].score
        /\ runs[b].results[1].row > runs[b].results[2].row

\* the brand codes of a record intersect the query codes
BrandMatches(metadata) ==
    CodeSet(metadata.brand_phonetic, metadata.brand_phonetic_alt)
        \cap _query_phonetic_codes(query) # {}

\* C10: of two runs that differ only in phonetic_boost, b1 <= b2, a candidate
\* whose brand codes intersect the query codes scores no more under b2 than
\* under b1, and any other candidate scores the same.
C10_BoostMonotone ==
    \A b1, b2 \in Boosts :
        (b1 <= b2 /\ Returned_(b1) /\ Returned_(b2)) =>
            /\ Len(runs[b1].scored) = Len(runs[b2].scored)
            /\ \A j \in 1 .. Len(runs[b1].scored) :
                   LET x == runs[b1].scored[j]
                       y == runs[b2].scored[j]
                   IN  /\ x.row = y.row
                       /\ BrandMatches(x.meta) => y.score <= x.score
                       /\ ~BrandMatches(x.meta) => y.score = x.score

\* C10's case: both runs returned, with a candidate whose brand matches and
\* one whose brand does not
C10_Witness ==
    \E b1, b2 \in Boosts :
        /\ b1 < b2
        /\ Returned_(b1)
        /\ Returned_(b2)
        /\ \E i, j \in 1 .. Len(runs[b1].scored) :
               /\ BrandMatches(runs[b1].scored[i].meta)
               /\ runs[b2].scored[i].score < runs[b1].scored[i].score
               /\ ~BrandMatches(runs[b1].scored[j].meta)

----------------------------------------------------------------------------
(* Properties of the tolerant comparison *)

\* the codes one edit away from a code: a letter removed, replaced or added
OneEdit(code) ==
    {SubSeq(code, 1, i - 1) \o SubSeq(code, i + 1, Len(code)) : i \in 1 .. Len(code)}
    \cup {[code EXCEPT ![i] = c] : i \in 1 .. Len(code), c \in CodeLetters}
    \cup {SubSeq(code, 1, i) \o <<c>> \o SubSeq(code, i + 1, Len(code)) :
              i \in 0 .. Len(code), c \in CodeLetters}

\* the codes at most n edits away
RECURSIVE WithinEdits(_, _)
WithinEdits(code, n) ==
    IF n = 0 THEN {code}
    ELSE LET nearer == WithinEdits(code, n - 1)
         IN  nearer \cup UNION {OneEdit(c) : c \in nearer}

\* C11: approx_code_match returns True exactly when the record code is not
\* empty and some query code equals it or is at most PHONETIC_CODE_MAX_EDITS
\* edits away; so an empty record code never matches and nothing matches an
\* empty query code set.
C11_TolerantMatch ==
    matched # <<>> =>
        /\ matched[1] = (/\ record_code # <<>>
                         /\ \E qc \in qcodes :
                                \/ qc = record_code
                                \/ qc \in WithinEdits(record_code, PHONETIC_CODE_MAX_EDITS))
        /\ record_code = <<>> => matched[1] = FALSE
        /\ qcodes = {} => matched[1] = FALSE

\* C11's case: a record code that is no query code matched by one edit
C11_Witness ==
    /\ matched = <<TRUE>>
    /\ record_code \notin qcodes
    /\ qcodes # {}

----------------------------------------------------------------------------
(* Properties of the request handlers *)

\* C12: a /search request whose q is empty or blank is answered with no
\* results, no facets, total_results 0 and the error "No search query
\* provided", and sends nothing to the embedding service or to the store.
C12_EmptyQueryShortCircuit ==
    (response.called /\ Strip(args.q) = <<>>) =>
        /\ ~response.escaped
        /\ response.results = <<>>
        /\ response.facets = <<>>
        /\ response.total_results = 0
        /\ response.error = "No search query provided"
        /\ posts = 0
        /\ queries = 0

\* C13: hybrid_search on the empty query returns an empty result list, does
\* not raise, and sends no request to the embedding service.
C13_EmptyQueryEmptyResult ==
    query = <<>> =>
        \A b \in Boosts : runs[b] # NoRun =>
            /\ runs[b].raised = None
            /\ runs[b].results = <<>>
            /\ \A r \in RerankReplies : embed_text(query, r, r).requests = 0

\* C14: a /search request whose k is not numeric is answered with no results
\* and an error field; no exception leaves the view and the search is not
\* run.
C14_NonNumericKAnswered ==
    (response.called /\ ~ParseInt(args.k).ok) =>
        /\ ~response.escaped
        /\ response.results = <<>>
        /\ response.error # None
        /\ posts = 0
        /\ queries = 0

\* the index rows of a list of hits
Rows(hits) == [i \in 1 .. Len(hits) |-> hits[i].row]

\* the ids of the brandSKU rows a hit's label resolves to
ResolvedIds(hit) ==
    {row.id : row \in {r \in Range(store.skus) :
                           LowerStr(r.label) = LowerStr(hit.meta.label)}}

\* candidate_ids: the ids the ranked hits resolve to, as a list
CandidateIds ==
    LET Candidate(row) == \E i \in 1 .. Len(response.ranked) :
                              row.id \in ResolvedIds(response.ranked[i])
        rows == SelectSeq(store.skus, Candidate)
    IN  [i \in 1 .. Len(rows) |-> rows[i].id]

\* keep_ids = matching_skus(facet_filters, candidate_ids)
KeepIds == Range(get_brand_skus_matching_facets(facet_filters, CandidateIds, store, {}))

\* the request was answered by search_with_facets without an error
Answered == response.called /\ ~response.escaped /\ response.error = None

\* facet_filters selects a value of some key
FiltersSelect == \E key \in DOMAIN facet_filters : facet_filters[key] # {}

\* C15: with facet_filters not empty (and the store answering), the results
\* are the ranked hits that have a resolved SKU id in keep_ids, each once, in
\* ranked order; a hit with no SKU in keep_ids is absent.
C15_FilteredHits ==
    (Answered /\ FiltersSelect /\ dbFail = {}) =>
        Rows(response.results) =
            Rows(SelectSeq(response.ranked,
                           LAMBDA hit : ResolvedIds(hit) \cap KeepIds # {}))

\* a store call of the request failed
StoreCallFailed ==
    \/ "resolve" \in dbFail /\ queries >= 1
    \/ "match" \in dbFail /\ queries = 2

\* C20: when a store call fails while search_with_facets resolves SKUs or
\* applies the filters, the request is still answered without an error, with
\* the hits the engine produced and with empty facets.
C20_StoreFailureKeepsResults ==
    (response.called /\ StoreCallFailed) =>
        /\ Answered
        /\ response.ranked # <<>>
        /\ Rows(response.results) = Rows(response.ranked)
        /\ response.facets = <<>>

----------------------------------------------------------------------------
(* Properties of the facets *)

\* the /facets requests answered so far
Asked == {f \in DOMAIN facetRuns : facetRuns[f] # NotAsked}

\* the (key, value, count) triples of a facet map
FacetEntries(facets) ==
    UNION {{<<facets[i].key, facets[i].options[j].value, facets[i].options[j].count>> :
               j \in 1 .. Len(facets[i].options)} : i \in 1 .. Len(facets)}

\* C16: for the same products, only_active flag and store, the facet keys,
\* values and counts are the same under every facet_filters: a filter adds
\* no key and no value.
C16_FacetsStable ==
    \A f, g \in Asked :
        /\ facetRuns[f] = facetRuns[g]
        /\ FacetEntries(facetRuns[f].facets) \subseteq FacetEntries(facetRuns[g].facets)

\* the ids the products named resolve to
NamedIds ==
    AllBrandSkuIds(get_brand_sku_by_product_names(product_names, store, dbFail), store)

\* C16's case: facets were returned under no filter and under a filter that
\* keeps some of the products' SKUs and not others
C16_Witness ==
    \E f \in Asked :
        /\ NoFilters \in Asked
        /\ facetRuns[f].facets # <<>>
        /\ LET keep == get_brand_skus_matching_facets(f, NamedIds, store, dbFail)
           IN  keep # <<>> /\ Range(keep) # Range(NamedIds)

\* the sum of the counts of a key's values
Total(entry) == SumCounts(entry.options)

\* C17: in the ordered facet map price_range, when present, is the first
\* key, and the other keys follow in non-increasing order of the sum of the
\* counts of their values.
C17_FacetOrder ==
    \A f \in Asked :
        LET facets == facetRuns[f].facets
        IN  /\ \A i \in 1 .. Len(facets) : facets[i].key = "price_range" => i = 1
            /\ \A i, j \in 1 .. Len(facets) :
                   (i < j /\ facets[i].key # "price_range") =>
                       Total(facets[i]) >= Total(facets[j])

\* C17's case: price_range leads although another key has a larger sum, and
\* the keys behind it are not in the store's order
C17_Witness ==
    \E f \in Asked :
        LET facets == facetRuns[f].facets
        IN  /\ Len(facets) >= 3
            /\ facets[1].key = "price_range"
            /\ Total(facets[1]) < Total(facets[2])
            /\ Total(facets[2]) > Total(facets[3])
            /\ Rank(facets[2].key) > Rank(facets[3].key)

----------------------------------------------------------------------------
(* Properties of the price ranges and of the facet filters *)

\* C18: a price p with 0 < p < 100000 falls in exactly one of the seven
\* buckets of the aggregation, and meets the condition of exactly one of the
\* seven price-range filters.
C18_BucketPartition ==
    (bucket # <<>> /\ price > 0 /\ price < Rs(100000)) =>
        /\ Len(bucket[1]) = 1
        /\ bucket[1][1].count = 1
        /\ bucket[1][1].facet_value \in PriceLabels
        /\ Cardinality(PriceLabels) = 7
        /\ Cardinality(intervals) = 1

\* C18's case: a price on the boundary of two buckets
C18_Witness ==
    /\ bucket # <<>>
    /\ price = Rs(100)
    /\ intervals = {"100 - 250"}

\* a row of the store satisfies one selected value of a key
Satisfies(id, key, value) ==
    \E row \in Range(store.skus) :
        /\ row.id = id
        /\ IF key = "price_range"
           THEN row.price # <<>> /\ PriceRangeCase(row.price[1]).facet_value = value
           ELSE \E f \in store.facets :
                    /\ f.sku = id /\ f.key = key /\ f.isActive
                    /\ ValuePresent(f) /\ Coalesce(f) = value

\* C19: get_brand_skus_matching_facets returns the candidate ids that, for
\* every key with selected values (price_range and unknown keys too),
\* satisfy one of the values selected; never an id that is no candidate.
C19_OrWithinAndAcross ==
    (matching # <<>> /\ dbFail = {}) =>
        /\ Range(matching[1]) =
               {id \in Range(candidate_ids) :
                   \A key \in DOMAIN facet_filters :
                       facet_filters[key] # {} =>
                           \E value \in facet_filters[key] : Satisfies(id, key, value)}
        /\ Range(matching[1]) \subseteq Range(candidate_ids)

----------------------------------------------------------------------------
(* Properties of the brand fields of a hit *)

\* the brandSKU rows of the label of a hit that are in keep_ids, in the
\* store's order
KeptRows(hit) ==
    SelectSeq(store.skus, LAMBDA r : /\ LowerStr(r.label) = LowerStr(hit.meta.label)
                                     /\ r.id \in KeepIds)

\* C21: when filters are applied, the brand fields attached to a kept hit
\* (brand_sku_id, brand_sku_label, brand_name, brand_id) are those of the
\* first SKU of its label that satisfies the filter, never those of a SKU
\* outside keep_ids.
C21_BrandFieldsOfKeptSku ==
    (Answered /\ FiltersSelect /\ dbFail = {}) =>
        \A i \in 1 .. Len(response.results) :
            LET hit == response.results[i]
            IN  "brand_sku_id" \in DOMAIN hit =>
                    /\ hit.brand_sku_id \in KeepIds
                    /\ KeptRows(hit) # <<>>
                    /\ hit.brand_sku_id = KeptRows(hit)[1].id
                    /\ hit.brand_sku_label = KeptRows(hit)[1].label
                    /\ hit.brand_name = KeptRows(hit)[1].brandLabel
                    /\ hit.brand_id = KeptRows(hit)[1].brandId

----------------------------------------------------------------------------
(* Properties of get_brand_sku_by_product_names *)

\* the brandSKU rows whose label is a name but for letter case
RowsLabelled(name) ==
    SelectSeq(store.skus, LAMBDA r : LowerStr(r.label) = LowerStr(name))

\* C22: the map get_brand_sku_by_product_names returns has as keys all the
\* input labels (as supplied) that equal some SKU label case-insensitively,
\* each with all the SKU rows matching it, also when two input labels differ
\* only in letter case.
C22_EveryLabelResolved ==
    \A f \in Asked :
        ("resolve" \notin dbFail /\ facetRuns[f].error = None) =>
            \A i \in 1 .. Len(product_names) :
                LET name == product_names[i]
                    mapping == facetRuns[f].brand_sku_mapping
                IN  RowsLabelled(name) # <<>> =>
                        /\ name \in DOMAIN mapping
                        /\ mapping[name] = RowsLabelled(name)

----------------------------------------------------------------------------
(* Properties of the shared connection *)

\* C23: under every interleaving of the execute_query calls of the request
\* threads on the one DatabaseConnection, no two calls use the connection
\* handle at the same time, and the lazy connect establishes at most one
\* connection.
C23_ConnectionUseSerialized ==
    /\ opened <= 1
    /\ \A t, u \in Threads :
           (t # u /\ caller[t].pc = "execute" /\ caller[u].pc = "execute") =>
               caller[t].handle # caller[u].handle

----------------------------------------------------------------------------
(* Properties of the engine's lookup *)

\* C24: no hybrid_search, search_with_facets or result-enhancement call
\* changes the lookup records or the vector index: the score and the brand
\* fields are written to copies, a lookup record never gains a key.
C24_LookupNeverWritten ==
    [][product_lookup' = product_lookup /\ dist' = dist]_vars

\* C24's case: hybrid_search has returned scored hits and search_with_facets
\* has attached brand fields to a result
C24_Witness ==
    /\ \E b \in Boosts : runs[b].results # <<>>
    /\ \E i \in 1 .. Len(response.results) :
           "brand_sku_id" \in DOMAIN response.results[i]
    /\ \A i \in 1 .. Len(product_lookup) :
           DOMAIN product_lookup[i] \cap {"score", "brand_sku_id"} = {}

----------------------------------------------------------------------------
(* Properties of the embedding client *)

\* an answer that carries an embedding that is not empty
Usable(r) == r.kind = "json" /\ ~Falsy(r.embedding)

\* an answer with no embedding key and an embeddings list of one vector
Singleton(r) ==
    /\ r.kind = "json" /\ r.embedding = -1
    /\ r.hasEmbeddings /\ Len(r.embeddings) = 1 /\ ~Falsy(r.embeddings[1])

\* C25: embed_text first posts {model, input}; it posts {model, prompt} only
\* if the first answer has no embedding; only if the embedding is still
\* absent does it accept a singleton embeddings list; it returns a vector
\* whenever one of the three yields one and raises an embedding error
\* otherwise, and sends at most two requests.
C25_PayloadFallback ==
    (embedded # <<>> /\ query # <<>>) =>
        LET call == embedded[1]
            retry == call.first.kind = "json" /\ ~Usable(call.first)
        IN  /\ Len(call.payloads) \in {1, 2}
            /\ call.payloads[1] = "input"
            /\ Len(call.payloads) = 2 <=> retry
            /\ retry => call.payloads[2] = "prompt"
            /\ call.out.ok <=>
                   \/ Usable(call.first)
                   \/ retry /\ (Usable(call.second) \/ Singleton(call.second))
            /\ call.out.ok =>
                   call.out.vec.dim =
                       IF Usable(call.first) THEN call.first.embedding
                       ELSE IF Usable(call.second) THEN call.second.embedding
                       ELSE call.second.embeddings[1]
            /\ ~call.out.ok => call.out.error = "OllamaEmbeddingError"

\* C25's case: neither POST was answered with an embedding, and the vector
\* returned is the one of the singleton list of the second answer
C25_Witness ==
    /\ embedded # <<>>
    /\ embedded[1].payloads = <<"input", "prompt">>
    /\ ~Usable(embedded[1].second)
    /\ embedded[1].out.ok

----------------------------------------------------------------------------
(* Properties of the scores *)

\* what one signal subtracts: the exact boost when the record's codes
\* intersect the query codes, otherwise the approximate boost when one of
\* them matches tolerantly, otherwise nothing
SignalAdjustment(codes, exact_boost) ==
    LET query_codes == _query_phonetic_codes(query)
    IN  IF codes \cap query_codes # {} THEN exact_boost
        ELSE IF \E c \in codes : approx_code_match(c, query_codes)
        THEN PHONETIC_APPROX_BOOST ELSE 0

\* the score of a candidate is the distance less one adjustment per signal
\* and the weighted similarity
ScoreAdditive(b, x) ==
    x.score = dist[x.row]
              - SignalAdjustment(CodeSet(x.meta.brand_phonetic,
                                         x.meta.brand_phonetic_alt), b)
              - SignalAdjustment(CodeSet(x.meta.product_phonetic,
                                         x.meta.product_phonetic_alt),
                                 PRODUCT_PHONETIC_BOOST)
              - FUZZY_JARO_WEIGHT * fuzzy_score(query, x.meta.label)

\* C26 as stated: per signal at most one adjustment is subtracted, the exact
\* boost or else the approximate one, so final_score = distance - brand
\* adjustment - product adjustment - FUZZY_JARO_WEIGHT*jw, and final_score
\* never exceeds the L2 distance.
C26_ScoreNeverAboveDistance ==
    \A b \in DOMAIN runs :
        runs[b].raised = None =>
            \A j \in 1 .. Len(runs[b].scored) :
                /\ ScoreAdditive(b, runs[b].scored[j])
                /\ runs[b].scored[j].score <= dist[runs[b].scored[j].row]

\* C26 amended: per signal at most one adjustment is subtracted, the exact
\* boost or else the approximate one, so final_score = distance - brand
\* adjustment - product adjustment - FUZZY_JARO_WEIGHT*jw; final_score does
\* not exceed the L2 distance when phonetic_boost is not negative.
C26_OneAdjustmentPerSignal ==
    \A b \in DOMAIN runs :
        runs[b].raised = None =>
            \A j \in 1 .. Len(runs[b].scored) :
                /\ ScoreAdditive(b, runs[b].scored[j])
                /\ b >= 0 => runs[b].scored[j].score <= dist[runs[b].scored[j].row]

\* C26's case: with a boost that is not negative, a candidate whose product
\* code equals a query code and so also matches it tolerantly, where the
\* exact and the approximate adjustment both offer themselves
C26_Witness ==
    \E b \in DOMAIN runs :
        /\ runs[b].raised = None
        /\ b >= 0
        /\ \E j \in 1 .. Len(runs[b].scored) :
               LET meta == runs[b].scored[j].meta
                   query_codes == _query_phonetic_codes(query)
                   product_codes == CodeSet(meta.product_phonetic,
                                            meta.product_phonetic_alt)
               IN  /\ product_codes \cap query_codes # {}
                   /\ \E c \in product_codes : approx_code_match(c, query_codes)
                   /\ runs[b].scored[j].score < dist[runs[b].scored[j].row]

----------------------------------------------------------------------------
(* Properties of the price filter against the price aggregation *)

\* the labels of the buckets in which get_price_range_facets counts the row
CountedIn == {bucket[1][i].facet_value : i \in 1 .. Len(bucket[1])}

\* C27: for every bucket label L the row is returned by
\* get_brand_skus_matching_facets({price_range: [L]}, ids) if and only if
\* get_price_range_facets counts it in bucket L; a row whose price is <= 0
\* or >= 100000, which no bucket counts, is returned by no price_range filter.
C27_FilterAgreesWithBuckets ==
    bucket # <<>> =>
        /\ \A L \in PriceLabels : L \in intervals <=> L \in CountedIn
        /\ (price <= 0 \/ price >= Rs(100000)) => intervals = {}

====
